---------------------------- MODULE StoreBootProofs ----------------------------
(* Proofs about StoreBoot, for any number of starts and resets.               *)
EXTENDS StoreBoot, TLAPS

USE BootAssumption DEF BootAssumption

\* The inductive invariant holds at first.
LEMMA BootInvInit == BootInit => BootInv
  BY DEF BootInit, BootInv, TypeOK, Store, Phases, In

\* And every step keeps it.
LEMMA BootInvStep == BootInv /\ [BootNext]_bootVars => BootInv'
<1> SUFFICES ASSUME BootInv, [BootNext]_bootVars PROVE BootInv'
  OBVIOUS
<1> USE DEF BootInv, TypeOK, Store, Snapshot, Phases, In
<1>1. ASSUME NEW b \in Boots, Mount(b) PROVE BootInv'
  BY <1>1 DEF Mount, Becomes
<1>2. ASSUME NEW b \in Boots, KeyRead(b) PROVE BootInv'
  <2> DEFINE x == IF keychain = None THEN [store[b] EXCEPT !.phase = "storing", !.key = b]
                  ELSE [store[b] EXCEPT !.phase = "rehydrating", !.key = keychain]
  <2>1. store' = [store EXCEPT ![b] = x] /\ x \in Store
    BY <1>2 DEF KeyRead
  <2>2. IF keychain = None THEN x.phase = "storing" /\ x.key = b
        ELSE x.phase = "rehydrating" /\ x.key = keychain
    OBVIOUS
  <2> HIDE DEF x
  <2>3. store' \in [Boots -> Store]
    BY <2>1
  <2>4. \A c \in Boots : store'[c] = IF c = b THEN x ELSE store[c]
    BY <2>1
  <2>5. In(b, "key") /\ UNCHANGED <<keychain, storage, screen, payer>>
    BY <1>2 DEF KeyRead
  <2> QED
    BY <2>2, <2>3, <2>4, <2>5
<1>3. ASSUME NEW b \in Boots, KeyStored(b) PROVE BootInv'
  BY <1>3 DEF KeyStored, Becomes
<1>4. ASSUME NEW b \in Boots, KeychainFails(b) PROVE BootInv'
  BY <1>4 DEF KeychainFails, Becomes
<1>5. ASSUME NEW b \in Boots, Rehydrate(b) PROVE BootInv'
  <2> DEFINE known == IF storage # None /\ storage.key = store[b].key
                      THEN storage.facts ELSE {}
  <2>1. known \in SUBSET Facts
    OBVIOUS
  <2>2. store' = [store EXCEPT ![b] = [@ EXCEPT !.phase = "ready", !.facts = known]]
    BY <1>5 DEF Rehydrate
  <2> HIDE DEF known
  <2> DEFINE x == [store[b] EXCEPT !.phase = "ready", !.facts = known]
  <2>3. store' \in [Boots -> Store]
    <3>1. x \in Store
      <4>1. store[b] \in Store /\ "ready" \in Phases
        OBVIOUS
      <4> HIDE DEF Phases
      <4> QED
        BY <2>1, <4>1
    <3> HIDE DEF x
    <3>2. store' = [store EXCEPT ![b] = x]
      BY <2>2 DEF x
    <3> QED
      BY <3>1, <3>2
  <2>4. \A c \in Boots : store'[c].key = store[c].key
                       /\ store'[c].phase = IF c = b THEN "ready" ELSE store[c].phase
    BY <2>2
  <2>5. In(b, "rehydrating") /\ UNCHANGED <<keychain, storage, screen, payer>>
    BY <1>5 DEF Rehydrate
  <2>6. QED
    BY <2>3, <2>4, <2>5
<1>6. ASSUME NEW b \in Boots, Write(b) PROVE BootInv'
  BY <1>6 DEF Write
<1>7. ASSUME NEW b \in Boots, NEW f \in Facts, Learn(b, f) PROVE BootInv'
  <2>1. store[b].facts \union {f} \in SUBSET Facts
    OBVIOUS
  <2>2. QED
    BY <1>7, <2>1 DEF Learn
<1>8. ASSUME NEW f \in Facts, Pay(f) PROVE BootInv'
  BY <1>8 DEF Pay
<1>9. CASE RenderThrows
  BY <1>9 DEF RenderThrows
<1>10. CASE Kill
  BY <1>10 DEF Kill
<1>11. CASE UNCHANGED bootVars
  BY <1>11 DEF bootVars
<1>12. QED
  BY <1>1, <1>2, <1>3, <1>4, <1>5, <1>6, <1>7, <1>8, <1>9, <1>10, <1>11
     DEF BootNext, BootStep

\* The inductive invariant of the boot, for any number of boots.
THEOREM BootInvariance == BootSpec => []BootInv
  BY BootInvInit, BootInvStep, PTL DEF BootSpec

\* However often the app is killed or its screens reset, the next start can read
\* what was written.
THEOREM Readable == BootSpec => []SnapshotReadable
<1>1. BootInv => SnapshotReadable
  BY DEF BootInv, SnapshotReadable
<1>2. QED
  BY <1>1, BootInvariance, PTL

--------------------------------------------------------------------------------
\* A store that is the only one up knows every outcome that has been written.
KnowsAll ==
  OneStore => \A b \in Boots :
    In(b, "ready") /\ storage # None => storage.facts \subseteq store[b].facts

\* It does at first, when none is up.
LEMMA KnowsAllInit == BootInit => KnowsAll
  BY DEF BootInit, KnowsAll, In

\* And it goes on so: it reads the storage, under the key the storage was written
\* with, before it is ready, and nobody else writes.
LEMMA KnowsAllStep == BootInv /\ KnowsAll /\ [BootNext]_bootVars => KnowsAll'
<1> SUFFICES ASSUME BootInv, KnowsAll, [BootNext]_bootVars PROVE KnowsAll'
  OBVIOUS
<1> USE DEF KnowsAll, OneStore, Up, In
<1>0. store \in [Boots -> Store]
  BY DEF BootInv, TypeOK
<1>1. ASSUME NEW b \in Boots, Mount(b) PROVE KnowsAll'
  BY <1>0, <1>1 DEF Mount, Becomes
<1>2. ASSUME NEW b \in Boots, KeyRead(b) PROVE KnowsAll'
  BY <1>0, <1>2 DEF KeyRead
<1>3. ASSUME NEW b \in Boots, KeyStored(b) PROVE KnowsAll'
  BY <1>0, <1>3 DEF KeyStored, Becomes
<1>4. ASSUME NEW b \in Boots, KeychainFails(b) PROVE KnowsAll'
  BY <1>0, <1>4 DEF KeychainFails, Becomes
<1>5. ASSUME NEW b \in Boots, Rehydrate(b) PROVE KnowsAll'
  BY <1>0, <1>5 DEF Rehydrate, BootInv
<1>6. ASSUME NEW b \in Boots, Write(b) PROVE KnowsAll'
  BY <1>0, <1>6 DEF Write
<1>7. ASSUME NEW b \in Boots, NEW f \in Facts, Learn(b, f) PROVE KnowsAll'
  BY <1>0, <1>7 DEF Learn
<1>8. ASSUME NEW f \in Facts, Pay(f) PROVE KnowsAll'
  BY <1>8 DEF Pay
<1>9. CASE RenderThrows
  BY <1>9 DEF RenderThrows
<1>10. CASE Kill
  BY <1>0, <1>10 DEF Kill
<1>11. CASE UNCHANGED bootVars
  BY <1>11 DEF bootVars
<1>12. QED
  BY <1>1, <1>2, <1>3, <1>4, <1>5, <1>6, <1>7, <1>8, <1>9, <1>10, <1>11
     DEF BootNext, BootStep

\* Over any number of starts, a store that is the only one up never forgets an
\* outcome that was written.
THEOREM OneStoreForgetsNothing == BootSpec => NothingForgottenByOne
<1>1. BootInv /\ KnowsAll /\ [BootNext]_bootVars =>
        [OneStore /\ storage # None =>
           storage' # None /\ storage.facts \subseteq storage'.facts]_bootVars
  <2> SUFFICES ASSUME BootInv, KnowsAll, [BootNext]_bootVars, OneStore, storage # None
               PROVE  storage' # None /\ storage.facts \subseteq storage'.facts
    OBVIOUS
  <2>1. ASSUME NEW b \in Boots, Write(b) PROVE storage' # None /\ storage.facts \subseteq storage'.facts
    <3>1. storage' = [key |-> store[b].key, facts |-> store[b].facts]
      BY <2>1 DEF Write
    <3>2. storage' \in Snapshot
      BY <3>1, <2>1 DEF Write, BootInv, TypeOK, Store, Snapshot, In
    <3>3. storage.facts \subseteq storage'.facts
      BY <3>1, <2>1 DEF Write, KnowsAll
    <3>4. QED
      BY <3>2, <3>3
  <2>2. CASE UNCHANGED storage
    BY <2>2
  <2>3. QED
    BY <2>1, <2>2 DEF BootNext, BootStep, Mount, KeyRead, KeyStored, KeychainFails,
       Rehydrate, Learn, Pay, RenderThrows, Kill, bootVars
<1>2. QED
  BY <1>1, KnowsAllInit, KnowsAllStep, BootInvariance, PTL
     DEF BootSpec, NothingForgottenByOne
================================================================================
