-------------------------------- MODULE StoreBoot --------------------------------
(***************************************************************************)
(* How the app's store comes up and what redux-persist keeps of it: the key *)
(* in the keychain, the encrypted snapshot in AsyncStorage, the stores that *)
(* StoreProvider makes, and the ErrorBoundary around it, whose "Try Again"  *)
(* mounts StoreProvider anew while the store of before lives on with its    *)
(* calls in flight.  CheckoutApp is about what one store holds; here it is  *)
(* just the set of finished transactions it knows of.                       *)
(***************************************************************************)
EXTENDS FiniteSets

CONSTANTS Boots,  \* mounts of StoreProvider
          Facts,  \* outcomes of payments
          None

Snapshot == [key: Boots, facts: SUBSET Facts]

ASSUME BootAssumption == None \notin Boots \union Snapshot

VARIABLES keychain, \* the key in the device's keychain; named by who made it
          storage,  \* what AsyncStorage has under persist:root
          store,    \* the store of each boot
          screen,   \* the boot whose StoreProvider is mounted
          payer     \* the boot whose store waits for an outcome

bootVars == <<keychain, storage, store, screen, payer>>

Phases   == {"unborn", "key", "storing", "rehydrating", "ready", "stuck", "dead"}
Store    == [phase: Phases, key: Boots \union {None}, facts: SUBSET Facts]

BootInit ==
  /\ keychain = None /\ storage = None
  /\ store = [b \in Boots |-> [phase |-> "unborn", key |-> None, facts |-> {}]]
  /\ screen = None
  /\ payer = [f \in Facts |-> None]

In(b, phase) == store[b].phase = phase
Becomes(b, phase) == store' = [store EXCEPT ![b].phase = phase]
--------------------------------------------------------------------------------
(* initStore                                                                *)

\* The app starts, or "Try Again" is pressed.
Mount(b) ==
  /\ screen = None /\ In(b, "unborn")
  /\ screen' = b /\ Becomes(b, "key")
  /\ UNCHANGED <<keychain, storage, payer>>

\* Mutant: the store does not wait for the keychain to take the new key.
KeyReadUnawaited(b) ==
  /\ In(b, "key")
  /\ store' = [store EXCEPT ![b] =
       [@ EXCEPT !.phase = "rehydrating", !.key = IF keychain = None THEN b ELSE keychain]]
  /\ UNCHANGED <<keychain, storage, screen, payer>>

\* getOrCreatePersistenceKey up to its second await.
KeyRead(b) ==
  /\ In(b, "key")
  /\ store' = [store EXCEPT ![b] =
       IF keychain = None THEN [@ EXCEPT !.phase = "storing", !.key = b]
       ELSE [@ EXCEPT !.phase = "rehydrating", !.key = keychain]]
  /\ UNCHANGED <<keychain, storage, screen, payer>>

KeyStored(b) ==
  /\ In(b, "storing") /\ Becomes(b, "rehydrating")
  /\ keychain' = store[b].key
  /\ UNCHANGED <<storage, screen, payer>>

\* Nobody catches what initStore throws: the spinner stays.
KeychainFails(b) ==
  /\ In(b, "key") \/ In(b, "storing")
  /\ Becomes(b, "stuck")
  /\ UNCHANGED <<keychain, storage, screen, payer>>

\* Mutant: the transaction slice is not on the whitelist.
RehydrateNothing(b) ==
  /\ In(b, "rehydrating") /\ Becomes(b, "ready")
  /\ UNCHANGED <<keychain, storage, screen, payer>>

\* A snapshot that cannot be decrypted is discarded as a whole.
Rehydrate(b) ==
  /\ In(b, "rehydrating")
  /\ store' = [store EXCEPT ![b] =
       [@ EXCEPT !.phase = "ready",
                 !.facts = IF storage # None /\ storage.key = store[b].key
                           THEN storage.facts ELSE {}]]
  /\ UNCHANGED <<keychain, storage, screen, payer>>
--------------------------------------------------------------------------------
(* A store at work                                                          *)

\* Only what is on the screen starts a payment.
Pay(f) ==
  /\ screen # None /\ In(screen, "ready") /\ payer[f] = None
  /\ payer' = [payer EXCEPT ![f] = screen]
  /\ UNCHANGED <<keychain, storage, store, screen>>

\* But an answer goes to the store that asked.
Learn(b, f) ==
  /\ payer[f] = b /\ In(b, "ready") /\ f \notin store[b].facts
  /\ store' = [store EXCEPT ![b].facts = @ \union {f}]
  /\ UNCHANGED <<keychain, storage, screen, payer>>

\* redux-persist writes the whole of a store some time after it changed.
Write(b) ==
  /\ In(b, "ready")
  /\ storage' = [key |-> store[b].key, facts |-> store[b].facts]
  /\ UNCHANGED <<keychain, store, screen, payer>>

\* The ErrorBoundary unmounts its children; their store does not go away.
RenderThrows ==
  /\ screen # None /\ In(screen, "ready")
  /\ screen' = None
  /\ UNCHANGED <<keychain, storage, store, payer>>

Kill ==
  /\ screen' = None
  /\ store' = [b \in Boots |-> IF In(b, "unborn") THEN store[b]
                               ELSE [store[b] EXCEPT !.phase = "dead"]]
  /\ UNCHANGED <<keychain, storage, payer>>

BootStep(b) == \/ Mount(b) \/ KeyRead(b) \/ KeyStored(b) \/ KeychainFails(b)
               \/ Rehydrate(b) \/ Write(b)
               \/ \E f \in Facts : Learn(b, f)

BootNext == \/ \E b \in Boots : BootStep(b)
            \/ \E f \in Facts : Pay(f)
            \/ RenderThrows \/ Kill

BootSpec == BootInit /\ [][BootNext]_bootVars
--------------------------------------------------------------------------------
(* Properties                                                               *)

TypeOK ==
  /\ keychain \in Boots \union {None}
  /\ storage \in Snapshot \union {None}
  /\ store \in [Boots -> Store]
  /\ screen \in Boots \union {None}
  /\ payer \in [Facts -> Boots \union {None}]

\* Whenever the app may be killed, what is in the storage can be decrypted by the
\* next start: no snapshot is written under a key the keychain does not have yet.
SnapshotReadable == storage # None => storage.key = keychain

\* The inductive invariant of the proof: the stores that are up all have the key of
\* the keychain, for at most one StoreProvider, the one on the screen, is still
\* about to find or to make it.
BootInv ==
  /\ TypeOK
  /\ storage # None => keychain # None /\ storage.key = keychain
  /\ \A b \in Boots :
       /\ In(b, "key") \/ In(b, "storing") => screen = b
       /\ In(b, "storing") => keychain = None /\ store[b].key # None
       /\ In(b, "rehydrating") \/ In(b, "ready") =>
            keychain # None /\ store[b].key = keychain

\* "Las transacciones finalizadas quedan en el estado persistido" (mobile/README),
\* over kills and new starts: a store rehydrates before it writes, so no write of
\* it loses an outcome an earlier one has put there.  That takes a store that is
\* the only one up; after a reset by the ErrorBoundary there may be two.
Up(b) == ~ In(b, "unborn") /\ ~ In(b, "dead")
OneStore == \A a, b \in Boots : Up(a) /\ Up(b) => a = b
NothingForgottenByOne ==
  [][OneStore /\ storage # None =>
       storage' # None /\ storage.facts \subseteq storage'.facts]_bootVars

\* The same whatever the number of stores, which is how the sentence reads; the
\* store of before a reset and the new one overwrite each other's snapshot.
NothingForgotten ==
  [][storage # None => storage' # None /\ storage.facts \subseteq storage'.facts]_bootVars
================================================================================
