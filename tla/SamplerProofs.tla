---------------------------- MODULE SamplerProofs ----------------------------
(***************************************************************************)
(* Theorems about Sampler for any number of administrators, exclusive      *)
(* schedulers and commands, whenever a stop comes and a sample fails.      *)
(***************************************************************************)
EXTENDS Sampler, FiniteSetTheorems, TLAPS

\* The commands and the callbacks that hold a reference.
Cmds == {a \in Admins : adm[a] \notin {"idle", "config"}}
Cbs == {t \in Schedulers : thr[t] \in {"got", "put"}}

\* A scheduled sampler is RUNNING, and only the shared scheduler is claimed.
Scheduled ==
  /\ samp.thread_id = IF samp.os = Shared THEN 0 ELSE -1
  /\ samp.os # NoOs => samp.state = "RUNNING"

\* One command joins, and its timer is gone; one command unloads, and the sampler
\* is in the tree until then.
OneCommand ==
  /\ \A a \in Admins : adm[a] = "join" => samp.os \in Exclusive /\ timer = NoOs
  /\ \A a, b \in Admins : adm[a] = "join" /\ adm[b] = "join" => a = b
  /\ samp.state # "TERMINATING" => samp.tree = TRUE /\ \A a \in Admins : adm[a] # "unload"
  /\ \A a \in Admins : adm[a] = "unload" => samp.tree = TRUE
  /\ \A a, b \in Admins : adm[a] = "unload" /\ adm[b] = "unload" => a = b

IInv == TypeOK /\ RefsExact /\ ClaimsExact /\ FaultsAreRaces /\ Scheduled /\ OneCommand

SampRec == [state : SampState, os : Schedulers \cup {NoOs}, thread_id : {-1, 0},
            use_xthread : BOOLEAN, ref : Nat, tree : BOOLEAN]

\* Threads are finitely many, so references can be counted.
LEMMA Finite ==
  /\ \A S \in SUBSET Admins : IsFiniteSet(S) /\ Cardinality(S) \in Nat
  /\ \A S \in SUBSET Schedulers : IsFiniteSet(S) /\ Cardinality(S) \in Nat
<1>1. IsFiniteSet(Admins) /\ IsFiniteSet(Exclusive)
  BY SchedulerAssumption
<1>2. IsFiniteSet({Shared})
  BY FS_Singleton
<1>3. IsFiniteSet(Schedulers)
  BY <1>1, <1>2, FS_Union DEF Schedulers
<1> QED BY <1>1, <1>3, FS_Subset, FS_CardinalityType

\* The reference count in terms of the two sets.
Base == (IF samp.tree = TRUE THEN 3 ELSE 0) + (IF samp.os = NoOs THEN 0 ELSE 1)

\* RefsExact says that they make up the count.
LEMMA RefsSum ==
  ASSUME TypeOK
  PROVE  /\ RefsExact <=> samp.ref = Base + Cardinality(Cmds) + Cardinality(Cbs)
         /\ Cardinality(Cmds) \in Nat /\ Cardinality(Cbs) \in Nat /\ Base \in Nat
<1>1. Cmds \in SUBSET Admins /\ Cbs \in SUBSET Schedulers
  BY DEF Cmds, Cbs
<1>2. Cardinality(Cmds) \in Nat /\ Cardinality(Cbs) \in Nat
  BY <1>1, Finite
<1>3. samp.tree \in BOOLEAN
  BY DEF TypeOK
<1>4. (IF samp.tree THEN 3 ELSE 0) = (IF samp.tree = TRUE THEN 3 ELSE 0)
  BY <1>3, Zenon
<1>5. Base \in Nat
  BY DEF Base
<1> DEFINE x == IF samp.tree THEN 3 ELSE 0
           y == IF samp.tree = TRUE THEN 3 ELSE 0
           z == IF samp.os = NoOs THEN 0 ELSE 1
           m == Cardinality(Cmds)
           n == Cardinality(Cbs)
<1>6. (RefsExact <=> samp.ref = x + m + n + z) /\ Base = y + z
  BY Zenon DEF RefsExact, Base, Cmds, Cbs
<1>7. x = y
  BY <1>4
<1>8. y \in Nat /\ z \in Nat /\ m \in Nat /\ n \in Nat
  BY <1>2
<1> HIDE DEF x, y, z, m, n
<1>9. x + m + n + z = y + z + m + n
  BY <1>7, <1>8
<1> QED BY <1>2, <1>5, <1>6, <1>9, Zenon DEF m, n

\* A step that changes the count as it changes the sets keeps it exact.
LEMMA RefsStep ==
  ASSUME IInv, samp'.tree \in BOOLEAN, samp'.ref \in Int,
         samp'.ref - Base' - Cardinality(Cmds') - Cardinality(Cbs')
           = samp.ref - Base - Cardinality(Cmds) - Cardinality(Cbs)
  PROVE  RefsExact' /\ samp'.ref \in Nat
<1>1. Cmds' \in SUBSET Admins /\ Cbs' \in SUBSET Schedulers
  BY DEF Cmds, Cbs
<1>2. Cardinality(Cmds') \in Nat /\ Cardinality(Cbs') \in Nat
  BY <1>1, Finite
<1> DEFINE x == IF samp'.tree THEN 3 ELSE 0
           y == IF samp'.tree = TRUE THEN 3 ELSE 0
           z == IF samp'.os = NoOs THEN 0 ELSE 1
           m == Cardinality(Cmds')
           n == Cardinality(Cbs')
           r == samp'.ref
<1>3. (RefsExact' <=> r = x + m + n + z) /\ Base' = y + z
  BY Zenon DEF RefsExact, Base, Cmds, Cbs
<1>4. x = y
  BY Zenon
<1>5. y \in Nat /\ z \in Nat /\ m \in Nat /\ n \in Nat /\ r \in Int
  BY <1>2
<1>6. /\ samp.ref = Base + Cardinality(Cmds) + Cardinality(Cbs)
      /\ Cardinality(Cmds) \in Nat /\ Cardinality(Cbs) \in Nat /\ Base \in Nat
      /\ samp.ref \in Nat
  BY RefsSum DEF IInv, TypeOK
<1>7. samp.ref - Base - Cardinality(Cmds) - Cardinality(Cbs) = 0
  BY <1>6
<1>8. r - Base' - m - n = 0
  BY <1>7
<1> HIDE DEF x, y, z, m, n, r
<1>9. r = x + m + n + z /\ r \in Nat
  BY <1>3, <1>4, <1>5, <1>8
<1> QED BY <1>3, <1>9 DEF r

\* A command that goes on keeps its reference.
LEMMA CmdsStay ==
  ASSUME IInv, NEW a \in Admins, NEW s \in AdmState \ {"idle", "config"},
         adm[a] \notin {"idle", "config"}, adm' = [adm EXCEPT ![a] = s]
  PROVE  Cmds' = Cmds /\ adm' \in [Admins -> AdmState]
         /\ \A b \in Admins : adm'[b] = IF b = a THEN s ELSE adm[b]
<1>1. adm \in [Admins -> AdmState]
  BY DEF IInv, TypeOK
<1> QED BY <1>1 DEF Cmds

\* The callbacks that hold a reference when one thread moves.
LEMMA CbsMove ==
  ASSUME IInv, NEW t \in Schedulers, NEW s \in ThrState, thr' = [thr EXCEPT ![t] = s]
  PROVE  /\ thr' \in [Schedulers -> ThrState]
         /\ \A u \in Schedulers : thr'[u] = IF u = t THEN s ELSE thr[u]
         /\ (thr[t] \in {"got", "put"}) = (s \in {"got", "put"}) =>
              Cardinality(Cbs') = Cardinality(Cbs)
         /\ thr[t] \notin {"got", "put"} /\ s \in {"got", "put"} =>
              Cardinality(Cbs') = Cardinality(Cbs) + 1
         /\ thr[t] \in {"got", "put"} /\ s \notin {"got", "put"} =>
              Cardinality(Cbs') = Cardinality(Cbs) - 1
<1>1. thr \in [Schedulers -> ThrState]
  BY DEF IInv, TypeOK
<1>2. \A u \in Schedulers : thr'[u] = IF u = t THEN s ELSE thr[u]
  BY <1>1
<1>3. Cbs \in SUBSET Schedulers /\ Cbs' \in SUBSET Schedulers
  BY DEF Cbs
<1>4. ASSUME (thr[t] \in {"got", "put"}) = (s \in {"got", "put"})
      PROVE  Cardinality(Cbs') = Cardinality(Cbs)
  <2>1. Cbs' = Cbs
    BY <1>2, <1>4 DEF Cbs
  <2> QED BY <2>1
<1>5. ASSUME thr[t] \notin {"got", "put"}, s \in {"got", "put"}
      PROVE  Cardinality(Cbs') = Cardinality(Cbs) + 1
  <2>1. Cbs' = Cbs \cup {t} /\ t \notin Cbs
    BY <1>2, <1>5 DEF Cbs
  <2> QED BY <1>3, <2>1, Finite, FS_AddElement
<1>6. ASSUME thr[t] \in {"got", "put"}, s \notin {"got", "put"}
      PROVE  Cardinality(Cbs') = Cardinality(Cbs) - 1
  <2>1. Cbs = Cbs' \cup {t} /\ t \notin Cbs'
    BY <1>2, <1>6 DEF Cbs
  <2>2. Cardinality(Cbs) = Cardinality(Cbs') + 1
    BY <1>3, <2>1, Finite, FS_AddElement
  <2>3. Cardinality(Cbs') \in Nat
    BY <1>3, Finite
  <2> QED BY <2>2, <2>3
<1>7. thr' \in [Schedulers -> ThrState]
  BY <1>1
<1> QED BY <1>2, <1>4, <1>5, <1>6, <1>7

(***************************************************************************)
(* Each action keeps the invariant.                                        *)
(***************************************************************************)

SampInt == [state : SampState, os : Schedulers \cup {NoOs}, thread_id : {-1, 0},
            use_xthread : BOOLEAN, ref : Int, tree : BOOLEAN]

\* The types, from a record whose count was shown to be exact.
LEMMA TypeStep ==
  ASSUME IInv, samp' \in SampInt, samp'.ref \in Nat,
         timer' \in Schedulers \cup {NoOs}, claims' \in Nat, term' \subseteq Exclusive,
         thr' \in [Schedulers -> ThrState], adm' \in [Admins -> AdmState],
         bad' \in Fault, cmds' \in 0 .. MaxCommands
  PROVE  TypeOK'
<1>1. samp' \in SampRec
  BY DEF SampInt, SampRec
<1> QED BY <1>1 DEF TypeOK, SampRec

\* The types in IInv.
LEMMA Types ==
  ASSUME IInv
  PROVE  /\ samp \in SampRec /\ timer \in Schedulers \cup {NoOs} /\ claims \in Nat
         /\ term \subseteq Exclusive /\ thr \in [Schedulers -> ThrState]
         /\ adm \in [Admins -> AdmState] /\ bad \in Fault /\ cmds \in 0 .. MaxCommands
         /\ samp.tree \in BOOLEAN /\ samp.os \in Schedulers \cup {NoOs}
         /\ samp.ref \in Nat /\ samp.state \in SampState
BY DEF IInv, TypeOK, SampRec

\* A step without a fault, and what a sampler without references is like.
LEMMA NoFault == bad' = "none" => bad' \in Fault /\ FaultsAreRaces'
BY DEF Fault, FaultsAreRaces

LEMMA FreedMeans ==
  ASSUME IInv, Freed
  PROVE  samp.os = NoOs /\ timer = NoOs /\ samp.state = "TERMINATING"
<1>1. /\ Base = 0 /\ samp.ref = 0
  <2>1. /\ samp.ref = Base + Cardinality(Cmds) + Cardinality(Cbs)
        /\ Cardinality(Cmds) \in Nat /\ Cardinality(Cbs) \in Nat /\ Base \in Nat
    BY RefsSum DEF IInv
  <2> QED BY <2>1 DEF Freed
<1>2. samp.os = NoOs /\ samp.tree # TRUE
  <2> DEFINE y == samp.tree = TRUE
  <2>1. Base = (IF y THEN 3 ELSE 0) + (IF samp.os = NoOs THEN 0 ELSE 1)
    BY Zenon DEF Base
  <2>2. y \in BOOLEAN
    BY Zenon
  <2> HIDE DEF y
  <2>3. samp.os = NoOs /\ ~y
    BY <1>1, <2>1, <2>2
  <2> QED BY <2>3 DEF y
<1>3. timer = NoOs
  BY <1>2 DEF IInv, ClaimsExact
<1>4. samp.state = "TERMINATING"
  BY <1>2, Zenon DEF IInv, OneCommand
<1> QED BY <1>2, <1>3, <1>4

\* A command begins: it takes the reference "find".
LEMMA FindKeeps ==
  ASSUME IInv, NEW a \in Admins, Find(a)
  PROVE  IInv'
<1>1. /\ adm[a] = "idle" /\ cmds < MaxCommands /\ adm' = [adm EXCEPT ![a] = "find"]
      /\ cmds' = cmds + 1 /\ samp' = [samp EXCEPT !.ref = samp.ref + 1]
      /\ timer' = timer /\ claims' = claims /\ term' = term /\ thr' = thr /\ bad' = "none"
  BY Types DEF Find, SampRec, Alive
<1>2. \A b \in Admins : adm'[b] = IF b = a THEN "find" ELSE adm[b]
  BY <1>1, Types
<1>3. /\ samp' \in SampInt /\ samp'.ref = samp.ref + 1 /\ samp'.tree = samp.tree
      /\ samp'.os = samp.os /\ samp'.state = samp.state /\ samp'.thread_id = samp.thread_id
  BY <1>1, Types DEF SampRec, SampInt
<1>4. Cardinality(Cmds') = Cardinality(Cmds) + 1 /\ Cardinality(Cbs') = Cardinality(Cbs)
  <2>1. Cmds' = Cmds \cup {a} /\ a \notin Cmds /\ Cmds \in SUBSET Admins /\ Cbs' = Cbs
    BY <1>1, <1>2 DEF Cmds, Cbs
  <2> QED BY <2>1, Finite, FS_AddElement
<1>5. RefsExact' /\ samp'.ref \in Nat
  <2>1. Base' = Base
    BY <1>3, Zenon DEF Base
  <2>2. samp'.tree \in BOOLEAN
    BY <1>3, Types, Zenon
  <2>3. Cardinality(Cmds) \in Nat /\ Cardinality(Cbs) \in Nat /\ Base \in Nat
    BY RefsSum DEF IInv
  <2>4. samp'.ref - Base' - Cardinality(Cmds') - Cardinality(Cbs')
          = samp.ref - Base - Cardinality(Cmds) - Cardinality(Cbs)
    BY <1>3, <1>4, <2>1, <2>3, Types
  <2> QED BY <1>3, <2>2, <2>4, Types, RefsStep
<1>6. TypeOK'
  <2>1. adm' \in [Admins -> AdmState] /\ cmds' \in 0 .. MaxCommands
    BY <1>1, Types, SchedulerAssumption DEF AdmState
  <2>2. bad' \in Fault
    BY <1>1, NoFault
  <2> QED BY <1>1, <1>3, <1>5, <2>1, <2>2, Types, TypeStep
<1>7. ClaimsExact' /\ Scheduled'
  BY <1>1, <1>3 DEF IInv, ClaimsExact, Scheduled
<1>8. OneCommand'
  BY <1>1, <1>2, <1>3 DEF IInv, OneCommand
<1>9. FaultsAreRaces'
  BY <1>1, NoFault
<1> QED BY <1>5, <1>6, <1>7, <1>8, <1>9 DEF IInv

\* What is left to show of a step: its record, its count, and the last two parts.
LEMMA Conclude ==
  ASSUME IInv, samp' \in SampInt,
         samp'.ref - Base' - Cardinality(Cmds') - Cardinality(Cbs')
           = samp.ref - Base - Cardinality(Cmds) - Cardinality(Cbs),
         timer' \in Schedulers \cup {NoOs}, claims' \in Nat, term' \subseteq Exclusive,
         thr' \in [Schedulers -> ThrState], adm' \in [Admins -> AdmState],
         bad' \in Fault, cmds' = cmds,
         ClaimsExact', FaultsAreRaces', Scheduled', OneCommand'
  PROVE  IInv'
<1>1. samp'.tree \in BOOLEAN /\ samp'.ref \in Int
  BY DEF SampInt
<1>2. RefsExact' /\ samp'.ref \in Nat
  BY <1>1, RefsStep
<1>3. TypeOK'
  BY <1>2, Types, TypeStep
<1> QED BY <1>2, <1>3 DEF IInv

\* A command that changes neither count nor base.
LEMMA SameCount ==
  ASSUME IInv, samp'.ref = samp.ref, Base' = Base, Cmds' = Cmds,
         Cardinality(Cbs') = Cardinality(Cbs)
  PROVE  samp'.ref - Base' - Cardinality(Cmds') - Cardinality(Cbs')
           = samp.ref - Base - Cardinality(Cmds) - Cardinality(Cbs)
BY Zenon

\* The type of a configured sampler.
LEMMA ConfigType ==
  ASSUME NEW B, NEW S, NEW O, NEW I, NEW N, NEW x \in B, NEW s \in S,
         NEW r \in [state : S, os : O, thread_id : I, use_xthread : B, ref : N, tree : B]
  PROVE  [r EXCEPT !.use_xthread = x, !.state = s]
           \in [state : S, os : O, thread_id : I, use_xthread : B, ref : N, tree : B]
OBVIOUS

\* Commands that the sampler's state refuses, that fail to start, and that stop what
\* has failed.
LEMMA PlainCommandKeeps ==
  ASSUME IInv, NEW a \in Admins, Refused(a) \/ StartFails(a) \/ StopFailed(a)
  PROVE  IInv'
<1>1. /\ adm[a] = "find" /\ adm' = [adm EXCEPT ![a] = "done"] /\ bad' = "none" /\ cmds' = cmds
      /\ timer' = timer /\ claims' = claims /\ term' = term /\ thr' = thr
      /\ \A b \in Admins : adm[b] # "join"
  BY DEF Refused, StartFails, StopFailed, Command, Answer, Locked, Alive
<1>2. /\ samp' \in SampInt /\ samp'.ref = samp.ref /\ samp'.tree = samp.tree
      /\ samp'.os = samp.os /\ samp'.thread_id = samp.thread_id
      /\ samp'.state # samp.state =>
           samp.os = NoOs /\ samp.state # "TERMINATING" /\ samp'.state # "TERMINATING"
  <2>1. CASE Refused(a)
    BY <2>1, Types DEF Refused, SampRec, SampInt
  <2>2. CASE StartFails(a)
    <3>1. PICK x \in BOOLEAN : samp' = [samp EXCEPT !.use_xthread = x]
      BY <2>2, Zenon DEF StartFails
    <3>2. samp' \in SampInt
      <4>1. samp' \in [state : SampState, os : Schedulers \cup {NoOs}, thread_id : {-1, 0},
                       use_xthread : BOOLEAN, ref : Nat, tree : BOOLEAN]
        BY <3>1, Types, Zenon DEF SampRec
      <4> QED BY <4>1 DEF SampInt
    <3>3. /\ samp'.ref = samp.ref /\ samp'.tree = samp.tree /\ samp'.os = samp.os
          /\ samp'.thread_id = samp.thread_id /\ samp'.state = samp.state
      BY <3>1, Types DEF SampRec
    <3> QED BY <3>2, <3>3
  <2>3. CASE StopFailed(a)
    <3>1. samp.state = "RUNNING" /\ samp.os = NoOs /\ samp' = [samp EXCEPT !.state = "CONFIGURED"]
      BY <2>3 DEF StopFailed
    <3> QED BY <3>1, Types DEF SampRec, SampInt, SampState
  <2> QED BY <2>1, <2>2, <2>3
<1>3. /\ Cmds' = Cmds /\ adm' \in [Admins -> AdmState]
      /\ \A b \in Admins : adm'[b] = IF b = a THEN "done" ELSE adm[b]
  <2>1. "done" \in AdmState \ {"idle", "config"} /\ adm[a] \notin {"idle", "config"}
    BY <1>1 DEF AdmState
  <2> QED BY <1>1, <2>1, CmdsStay
<1>4. samp'.ref - Base' - Cardinality(Cmds') - Cardinality(Cbs')
        = samp.ref - Base - Cardinality(Cmds) - Cardinality(Cbs)
  <2>1. Base' = Base
    BY <1>2, Zenon DEF Base
  <2>2. Cbs' = Cbs
    BY <1>1 DEF Cbs
  <2> QED BY <1>2, <1>3, <2>1, <2>2, SameCount
<1>5. ClaimsExact' /\ Scheduled'
  BY <1>1, <1>2 DEF IInv, ClaimsExact, Scheduled
<1>6. OneCommand'
  BY <1>1, <1>2, <1>3 DEF IInv, OneCommand
<1>7. bad' \in Fault /\ FaultsAreRaces'
  BY <1>1, NoFault
<1> QED BY <1>1, <1>2, <1>3, <1>4, <1>5, <1>6, <1>7, Types, Conclude

\* The config command holds no reference: it may find the sampler freed.
LEMMA ConfigKeeps ==
  ASSUME IInv, NEW a \in Admins, Config(a)
  PROVE  IInv'
<1>1. /\ adm[a] = "config" /\ adm' = [adm EXCEPT ![a] = "idle"] /\ cmds' = cmds
      /\ timer' = timer /\ claims' = claims /\ term' = term /\ thr' = thr
      /\ bad = "none" /\ bad' = (IF Freed THEN "freed" ELSE bad)
  BY DEF Config, Alive
<1>2. /\ samp' \in SampInt /\ samp'.ref = samp.ref /\ samp'.tree = samp.tree
      /\ samp'.os = samp.os /\ samp'.thread_id = samp.thread_id
      /\ samp'.state # samp.state =>
           samp.os = NoOs /\ samp.state # "TERMINATING" /\ samp'.state # "TERMINATING"
      /\ Freed => samp' = samp
  <2>1. CASE Freed \/ samp.state \in {"RUNNING", "TERMINATING"}
    <3>1. samp' = samp
      BY <2>1 DEF Config
    <3> QED BY <3>1, Types DEF SampRec, SampInt
  <2>2. CASE ~(Freed \/ samp.state \in {"RUNNING", "TERMINATING"})
    <3>1. PICK x \in BOOLEAN, s \in {samp.state, "CONFIGURED"} :
            samp' = [samp EXCEPT !.use_xthread = x, !.state = s]
      BY <2>2, Zenon DEF Config
    <3>2. samp.state \in {"INIT", "CONFIGURED"}
      BY <2>2, Types DEF SampState
    <3>3. samp.os = NoOs
      BY <3>2 DEF IInv, Scheduled
    <3>4. s \in SampState
      BY <3>2 DEF SampState
    <3>5. samp' \in SampInt
      <4>1. [samp EXCEPT !.use_xthread = x, !.state = s]
              \in [state : SampState, os : Schedulers \cup {NoOs}, thread_id : {-1, 0},
                   use_xthread : BOOLEAN, ref : Nat, tree : BOOLEAN]
        BY <3>1, <3>4, Types, ConfigType, Zenon DEF SampRec
      <4> QED BY <3>1, <4>1 DEF SampInt
    <3>6. /\ samp'.ref = samp.ref /\ samp'.tree = samp.tree /\ samp'.os = samp.os
          /\ samp'.thread_id = samp.thread_id /\ samp'.state = s
      BY <3>1, Types DEF SampRec
    <3> QED BY <2>2, <3>2, <3>3, <3>5, <3>6
  <2> QED BY <2>1, <2>2
<1>3. /\ Cmds' = Cmds /\ adm' \in [Admins -> AdmState]
      /\ \A b \in Admins : adm'[b] = IF b = a THEN "idle" ELSE adm[b]
  BY <1>1, Types DEF AdmState, Cmds
<1>4. samp'.ref - Base' - Cardinality(Cmds') - Cardinality(Cbs')
        = samp.ref - Base - Cardinality(Cmds) - Cardinality(Cbs)
  <2>1. Base' = Base
    BY <1>2, Zenon DEF Base
  <2>2. Cbs' = Cbs
    BY <1>1 DEF Cbs
  <2> QED BY <1>2, <1>3, <2>1, <2>2, SameCount
<1>5. ClaimsExact' /\ Scheduled'
  BY <1>1, <1>2 DEF IInv, ClaimsExact, Scheduled
<1>6. OneCommand'
  BY <1>1, <1>2, <1>3 DEF IInv, OneCommand
<1>7. bad' \in Fault /\ FaultsAreRaces'
  <2>1. CASE Freed
    BY <1>1, <1>2, <2>1, FreedMeans DEF Fault, FaultsAreRaces
  <2>2. CASE ~Freed
    BY <1>1, <2>2, NoFault
  <2> QED BY <2>1, <2>2
<1> QED BY <1>1, <1>2, <1>3, <1>4, <1>5, <1>6, <1>7, Types, Conclude

\* The type of a sampler that is started.
LEMMA StartType ==
  ASSUME NEW B, NEW S, NEW O, NEW I, NEW N, NEW o \in O, NEW i \in I, NEW x \in B,
         NEW s \in S, NEW n \in N,
         NEW r \in [state : S, os : O, thread_id : I, use_xthread : B, ref : N, tree : B]
  PROVE  [r EXCEPT !.os = o, !.thread_id = i, !.use_xthread = x, !.state = s, !.ref = n]
           \in [state : S, os : O, thread_id : I, use_xthread : B, ref : N, tree : B]
OBVIOUS

\* start puts the timer on one scheduler and takes the reference for it.
LEMMA StartKeeps ==
  ASSUME IInv, NEW a \in Admins, Start(a)
  PROVE  IInv'
<1>1. /\ adm[a] = "find" /\ adm' = [adm EXCEPT ![a] = "done"] /\ bad' = "none" /\ cmds' = cmds
      /\ term' = term /\ samp.state = "CONFIGURED" /\ \A b \in Admins : adm[b] # "join"
  BY DEF Start, Command, Answer, Locked, Alive
<1>2. PICK t \in Schedulers :
        /\ t = Shared \/ (t \in Exclusive /\ thr[t] = "none")
        /\ samp' = [samp EXCEPT !.os = t, !.thread_id = IF t = Shared THEN 0 ELSE -1,
                                !.use_xthread = (t # Shared), !.state = "RUNNING",
                                !.ref = samp.ref + 1]
        /\ timer' = t
        /\ claims' = IF t = Shared THEN claims + 1 ELSE claims
        /\ thr' = IF t = Shared THEN thr ELSE [thr EXCEPT ![t] = "starting"]
  BY Zenon DEF Start, Schedulers
<1>3. samp.os = NoOs /\ timer = NoOs /\ claims = 0 /\ t # NoOs
  <2>1. samp.os = NoOs
    BY <1>1 DEF IInv, Scheduled
  <2> QED BY <2>1, SchedulerAssumption DEF IInv, ClaimsExact, Schedulers
<1> DEFINE i == IF t = Shared THEN 0 ELSE -1
           x == t # Shared
           c == "RUNNING"
           n == samp.ref + 1
<1>4. /\ i \in {-1, 0} /\ c \in SampState /\ n \in Int /\ x \in BOOLEAN
      /\ samp' = [samp EXCEPT !.os = t, !.thread_id = i, !.use_xthread = x,
                              !.state = c, !.ref = n]
  <2>1. i \in {-1, 0} /\ c \in SampState /\ n \in Int
    BY Types DEF SampState
  <2>2. x \in BOOLEAN
    BY Zenon
  <2>3. samp' = [samp EXCEPT !.os = t, !.thread_id = i, !.use_xthread = x,
                             !.state = c, !.ref = n]
    BY <1>2, Zenon
  <2> QED BY <2>1, <2>2, <2>3, Zenon
<1> HIDE DEF i, x, c, n
<1>5. /\ samp' \in SampInt /\ samp'.ref = samp.ref + 1 /\ samp'.tree = samp.tree
      /\ samp'.os = t /\ samp'.thread_id = i /\ samp'.state = "RUNNING"
  <2>1. samp \in SampInt
    BY Types DEF SampRec, SampInt
  <2>2. t \in Schedulers \cup {NoOs}
    OBVIOUS
  <2>3. samp' \in SampInt
    BY <1>4, <2>1, <2>2, StartType, Zenon DEF SampInt
  <2>4. /\ samp'.ref = n /\ samp'.os = t /\ samp'.thread_id = i /\ samp'.state = c
        /\ samp'.tree = samp.tree
    BY <1>4, Types, Zenon DEF SampRec
  <2> QED BY <2>3, <2>4 DEF c, n
<1>6. /\ Cmds' = Cmds /\ adm' \in [Admins -> AdmState]
      /\ \A b \in Admins : adm'[b] = IF b = a THEN "done" ELSE adm[b]
  <2>1. "done" \in AdmState \ {"idle", "config"} /\ adm[a] \notin {"idle", "config"}
    BY <1>1 DEF AdmState
  <2> QED BY <1>1, <2>1, CmdsStay
<1>7. thr' \in [Schedulers -> ThrState] /\ Cbs' = Cbs
  <2>1. CASE t = Shared
    BY <1>2, <2>1, Types DEF Cbs
  <2>2. CASE t # Shared
    <3>1. thr' = [thr EXCEPT ![t] = "starting"] /\ thr[t] = "none"
      BY <1>2, <2>2
    <3> QED BY <3>1, Types DEF Cbs, ThrState
  <2> QED BY <2>1, <2>2
<1>8. samp'.ref - Base' - Cardinality(Cmds') - Cardinality(Cbs')
        = samp.ref - Base - Cardinality(Cmds) - Cardinality(Cbs)
  <2>1. Base' = Base + 1
    <3> DEFINE y == IF samp.tree = TRUE THEN 3 ELSE 0
    <3>1. Base = y + 0 /\ Base' = y + 1
      BY <1>3, <1>5, Zenon DEF Base
    <3>2. y \in Nat
      OBVIOUS
    <3> HIDE DEF y
    <3> QED BY <3>1, <3>2
  <2>2. Cardinality(Cmds) \in Nat /\ Cardinality(Cbs) \in Nat /\ Base \in Nat
    BY RefsSum DEF IInv
  <2> QED BY <1>5, <1>6, <1>7, <2>1, <2>2, Types
<1>9. ClaimsExact'
  BY <1>2, <1>3, <1>5 DEF ClaimsExact
<1>10. Scheduled'
  BY <1>5 DEF Scheduled, i
<1>11. OneCommand'
  BY <1>1, <1>5, <1>6 DEF IInv, OneCommand
<1>12. bad' \in Fault /\ FaultsAreRaces' /\ claims' \in Nat
  BY <1>1, <1>2, <1>3, NoFault
<1> QED BY <1>1, <1>2, <1>5, <1>6, <1>7, <1>8, <1>9, <1>10, <1>11, <1>12, Types, Conclude

\* A sampler whose timer is gone.
LEMMA UnscheduledFields ==
  ASSUME NEW s \in SampRec
  PROVE  /\ Unscheduled(s) \in SampInt /\ Unscheduled(s).ref = s.ref - 1
         /\ Unscheduled(s).os = NoOs /\ Unscheduled(s).thread_id = -1
         /\ Unscheduled(s).state = s.state /\ Unscheduled(s).tree = s.tree
<1> DEFINE n == s.ref - 1
           i == -1
<1>1. n \in Int /\ i \in {-1, 0} /\ Unscheduled(s) = [s EXCEPT !.os = NoOs, !.thread_id = i, !.ref = n]
  BY DEF SampRec, Unscheduled
<1> HIDE DEF n, i
<1>2. Unscheduled(s) \in SampInt
  BY <1>1 DEF SampRec, SampInt
<1>3. Unscheduled(s).ref = n /\ Unscheduled(s).os = NoOs /\ Unscheduled(s).thread_id = i
  BY <1>1 DEF SampRec
<1>4. Unscheduled(s).state = s.state /\ Unscheduled(s).tree = s.tree
  BY <1>1 DEF SampRec
<1> QED BY <1>2, <1>3, <1>4 DEF n, i

\* The same, CONFIGURED again.
LEMMA StoppedFields ==
  ASSUME NEW s \in SampRec, NEW d, d = [Unscheduled(s) EXCEPT !.state = "CONFIGURED"]
  PROVE  /\ d \in SampInt /\ d.ref = s.ref - 1 /\ d.os = NoOs /\ d.thread_id = -1
         /\ d.state = "CONFIGURED" /\ d.tree = s.tree
<1> DEFINE u == Unscheduled(s)
           c == "CONFIGURED"
<1>1. /\ u \in SampInt /\ u.ref = s.ref - 1 /\ u.os = NoOs /\ u.thread_id = -1
      /\ u.tree = s.tree
  BY UnscheduledFields
<1>2. c \in SampState /\ d = [u EXCEPT !.state = c]
  BY DEF SampState
<1> HIDE DEF u, c
<1>3. d \in SampInt
  BY <1>1, <1>2 DEF SampInt
<1>4. d.ref = u.ref /\ d.os = u.os /\ d.thread_id = u.thread_id /\ d.state = c
  BY <1>1, <1>2 DEF SampInt
<1>5. d.tree = u.tree
  BY <1>1, <1>2 DEF SampInt
<1> QED BY <1>1, <1>3, <1>4, <1>5 DEF c

\* The reference "start" is put when the scheduler is given up.
LEMMA BaseDrops ==
  ASSUME IInv, samp.os # NoOs, samp'.os = NoOs, samp'.tree = samp.tree,
         samp'.ref = samp.ref - 1, Cmds' = Cmds, Cardinality(Cbs') = Cardinality(Cbs)
  PROVE  samp'.ref - Base' - Cardinality(Cmds') - Cardinality(Cbs')
           = samp.ref - Base - Cardinality(Cmds) - Cardinality(Cbs)
<1> DEFINE y == IF samp.tree = TRUE THEN 3 ELSE 0
<1>1. Base = y + 1 /\ Base' = y + 0
  BY Zenon DEF Base
<1>2. y \in Nat
  OBVIOUS
<1>3. Cardinality(Cmds) \in Nat /\ Cardinality(Cbs) \in Nat
  BY RefsSum DEF IInv
<1> HIDE DEF y
<1> QED BY <1>1, <1>2, <1>3, Types

\* stop of a sampler on the shared scheduler.
LEMMA StopSharedKeeps ==
  ASSUME IInv, NEW a \in Admins, StopShared(a)
  PROVE  IInv'
<1>1. /\ adm[a] = "find" /\ adm' = [adm EXCEPT ![a] = "done"] /\ bad' = "none" /\ cmds' = cmds
      /\ term' = term /\ thr' = thr /\ timer' = NoOs /\ claims' = claims - 1
      /\ samp.os = Shared /\ samp.state = "RUNNING"
      /\ samp' = [Unscheduled(samp) EXCEPT !.state = "CONFIGURED"]
      /\ \A b \in Admins : adm[b] # "join"
  BY DEF StopShared, Command, Answer, Locked, Alive
<1>2. /\ samp' \in SampInt /\ samp'.ref = samp.ref - 1 /\ samp'.os = NoOs
      /\ samp'.thread_id = -1 /\ samp'.state = "CONFIGURED" /\ samp'.tree = samp.tree
  BY <1>1, Types, StoppedFields
<1>3. /\ Cmds' = Cmds /\ adm' \in [Admins -> AdmState]
      /\ \A b \in Admins : adm'[b] = IF b = a THEN "done" ELSE adm[b]
  <2>1. "done" \in AdmState \ {"idle", "config"} /\ adm[a] \notin {"idle", "config"}
    BY <1>1 DEF AdmState
  <2> QED BY <1>1, <2>1, CmdsStay
<1>4. Shared # NoOs /\ Shared \in Schedulers
  BY SchedulerAssumption DEF Schedulers
<1>5. samp'.ref - Base' - Cardinality(Cmds') - Cardinality(Cbs')
        = samp.ref - Base - Cardinality(Cmds) - Cardinality(Cbs)
  <2>1. Cbs' = Cbs
    BY <1>1 DEF Cbs
  <2> QED BY <1>1, <1>2, <1>3, <1>4, <2>1, BaseDrops
<1>6. claims = 1
  BY <1>1 DEF IInv, ClaimsExact
<1>7. ClaimsExact' /\ claims' \in Nat
  BY <1>1, <1>2, <1>4, <1>6 DEF ClaimsExact
<1>8. Scheduled'
  BY <1>2, <1>4 DEF Scheduled
<1>9. OneCommand'
  BY <1>1, <1>2, <1>3 DEF IInv, OneCommand
<1>10. bad' \in Fault /\ FaultsAreRaces'
  BY <1>1, NoFault
<1> QED BY <1>1, <1>2, <1>3, <1>5, <1>7, <1>8, <1>9, <1>10, Types, Conclude

\* stop of a sampler on an exclusive scheduler, up to the join ...
LEMMA StopExclusiveKeeps ==
  ASSUME IInv, NEW a \in Admins, StopExclusive(a)
  PROVE  IInv'
<1>1. /\ adm[a] = "find" /\ adm' = [adm EXCEPT ![a] = "join"] /\ bad' = "none" /\ cmds' = cmds
      /\ thr' = thr /\ timer' = NoOs /\ claims' = claims /\ samp' = samp
      /\ samp.os \in Exclusive /\ samp.state = "RUNNING"
      /\ \A b \in Admins : adm[b] # "join"
  BY DEF StopExclusive, Command, Locked, Alive
<1>2. term' \subseteq Exclusive
  BY <1>1, Types DEF StopExclusive
<1>3. /\ Cmds' = Cmds /\ adm' \in [Admins -> AdmState]
      /\ \A b \in Admins : adm'[b] = IF b = a THEN "join" ELSE adm[b]
  <2>1. "join" \in AdmState \ {"idle", "config"} /\ adm[a] \notin {"idle", "config"}
    BY <1>1 DEF AdmState
  <2> QED BY <1>1, <2>1, CmdsStay
<1>4. samp' \in SampInt
  BY <1>1, Types DEF SampRec, SampInt
<1>5. samp'.ref - Base' - Cardinality(Cmds') - Cardinality(Cbs')
        = samp.ref - Base - Cardinality(Cmds) - Cardinality(Cbs)
  <2>1. Cbs' = Cbs /\ Base' = Base
    BY <1>1, Zenon DEF Cbs, Base
  <2> QED BY <1>1, <1>3, <2>1, SameCount
<1>6. ClaimsExact'
  BY <1>1 DEF IInv, ClaimsExact
<1>7. Scheduled'
  BY <1>1 DEF IInv, Scheduled
<1>8. OneCommand'
  BY <1>1, <1>3 DEF IInv, OneCommand
<1>9. bad' \in Fault /\ FaultsAreRaces' /\ timer' \in Schedulers \cup {NoOs}
  BY <1>1, NoFault
<1> QED BY <1>1, <1>2, <1>3, <1>4, <1>5, <1>6, <1>7, <1>8, <1>9, Types, Conclude

\* ... and after it.
LEMMA JoinedKeeps ==
  ASSUME IInv, NEW a \in Admins, Joined(a)
  PROVE  IInv'
<1>1. /\ adm[a] = "join" /\ adm' = [adm EXCEPT ![a] = "done"] /\ bad' = "none" /\ cmds' = cmds
      /\ term' = term /\ thr' = thr /\ timer' = timer /\ claims' = claims
      /\ samp' = [Unscheduled(samp) EXCEPT !.state = "CONFIGURED"]
  BY DEF Joined, Answer, Alive
<1>2. samp.os \in Exclusive /\ timer = NoOs /\ \A b \in Admins : adm[b] = "join" => b = a
  BY <1>1 DEF IInv, OneCommand
<1>3. /\ samp' \in SampInt /\ samp'.ref = samp.ref - 1 /\ samp'.os = NoOs
      /\ samp'.thread_id = -1 /\ samp'.state = "CONFIGURED" /\ samp'.tree = samp.tree
  BY <1>1, Types, StoppedFields
<1>4. /\ Cmds' = Cmds /\ adm' \in [Admins -> AdmState]
      /\ \A b \in Admins : adm'[b] = IF b = a THEN "done" ELSE adm[b]
  <2>1. "done" \in AdmState \ {"idle", "config"} /\ adm[a] \notin {"idle", "config"}
    BY <1>1 DEF AdmState
  <2> QED BY <1>1, <2>1, CmdsStay
<1>5. Shared # NoOs /\ samp.os # NoOs /\ samp.os # Shared
  BY <1>2, SchedulerAssumption DEF Schedulers
<1>6. samp'.ref - Base' - Cardinality(Cmds') - Cardinality(Cbs')
        = samp.ref - Base - Cardinality(Cmds) - Cardinality(Cbs)
  <2>1. Cbs' = Cbs
    BY <1>1 DEF Cbs
  <2> QED BY <1>3, <1>4, <1>5, <2>1, BaseDrops
<1>7. ClaimsExact'
  BY <1>1, <1>2, <1>3, <1>5 DEF IInv, ClaimsExact
<1>8. Scheduled'
  BY <1>1, <1>3, <1>5 DEF IInv, Scheduled
<1>9. OneCommand'
  <2>1. samp.state # "TERMINATING"
    BY <1>5 DEF IInv, Scheduled
  <2> QED BY <1>2, <1>3, <1>4, <2>1 DEF IInv, OneCommand
<1>10. bad' \in Fault /\ FaultsAreRaces'
  BY <1>1, NoFault
<1> QED BY <1>1, <1>3, <1>4, <1>6, <1>7, <1>8, <1>9, <1>10, Types, Conclude

\* ldmsd_term_plugin() up to the release of the lock ...
LEMMA TermPluginKeeps ==
  ASSUME IInv, NEW a \in Admins, TermPlugin(a)
  PROVE  IInv'
<1>1. /\ adm[a] = "find" /\ adm' = [adm EXCEPT ![a] = "unload"] /\ bad' = "none" /\ cmds' = cmds
      /\ term' = term /\ thr' = thr /\ timer' = timer /\ claims' = claims
      /\ samp' = [samp EXCEPT !.state = "TERMINATING"] /\ samp.state \in {"INIT", "CONFIGURED"}
      /\ \A b \in Admins : adm[b] # "join"
  BY DEF TermPlugin, Command, Locked, Alive
<1>2. /\ samp' \in SampInt /\ samp'.ref = samp.ref /\ samp'.os = samp.os
      /\ samp'.thread_id = samp.thread_id /\ samp'.state = "TERMINATING" /\ samp'.tree = samp.tree
  BY <1>1, Types DEF SampRec, SampInt, SampState
<1>3. /\ Cmds' = Cmds /\ adm' \in [Admins -> AdmState]
      /\ \A b \in Admins : adm'[b] = IF b = a THEN "unload" ELSE adm[b]
  <2>1. "unload" \in AdmState \ {"idle", "config"} /\ adm[a] \notin {"idle", "config"}
    BY <1>1 DEF AdmState
  <2> QED BY <1>1, <2>1, CmdsStay
<1>4. samp'.ref - Base' - Cardinality(Cmds') - Cardinality(Cbs')
        = samp.ref - Base - Cardinality(Cmds) - Cardinality(Cbs)
  <2>1. Base' = Base
    BY <1>2, Zenon DEF Base
  <2>2. Cbs' = Cbs
    BY <1>1 DEF Cbs
  <2> QED BY <1>2, <1>3, <2>1, <2>2, SameCount
<1>5. ClaimsExact' /\ Scheduled'
  BY <1>1, <1>2 DEF IInv, ClaimsExact, Scheduled
<1>6. OneCommand'
  BY <1>1, <1>2, <1>3 DEF IInv, OneCommand
<1>7. bad' \in Fault /\ FaultsAreRaces'
  BY <1>1, NoFault
<1> QED BY <1>1, <1>2, <1>3, <1>4, <1>5, <1>6, <1>7, Types, Conclude

\* The type of a sampler that leaves the tree.
LEMMA UnloadType ==
  ASSUME NEW B, NEW S, NEW O, NEW I, NEW N, NEW x \in B, NEW n \in N,
         NEW r \in [state : S, os : O, thread_id : I, use_xthread : B, ref : N, tree : B]
  PROVE  [r EXCEPT !.tree = x, !.ref = n]
           \in [state : S, os : O, thread_id : I, use_xthread : B, ref : N, tree : B]
OBVIOUS

\* ... and the removal from the tree with the puts of "load" and "init".
LEMMA UnloadKeeps ==
  ASSUME IInv, NEW a \in Admins, Unload(a)
  PROVE  IInv'
<1> DEFINE no == FALSE
<1>1. /\ adm[a] = "unload" /\ adm' = [adm EXCEPT ![a] = "done"] /\ bad' = "none" /\ cmds' = cmds
      /\ term' = term /\ thr' = thr /\ timer' = timer /\ claims' = claims
  BY DEF Unload, Answer, Alive
<1>2. samp' = [samp EXCEPT !.tree = no, !.ref = samp.ref - 3] /\ no \in BOOLEAN
  BY Zenon DEF Unload
<1>3. no = FALSE
  BY Zenon
<1> HIDE DEF no
<1>4. /\ samp.tree = TRUE /\ samp.state = "TERMINATING"
      /\ \A b \in Admins : adm[b] = "unload" => b = a
  BY <1>1 DEF IInv, OneCommand
<1>5. /\ samp' \in SampInt /\ samp'.ref = samp.ref - 3 /\ samp'.os = samp.os
      /\ samp'.thread_id = samp.thread_id /\ samp'.state = samp.state
  <2>1. samp' \in SampInt
    <3>1. samp.ref - 3 \in Int
      BY Types
    <3>2. samp \in [state : SampState, os : Schedulers \cup {NoOs}, thread_id : {-1, 0},
                    use_xthread : BOOLEAN, ref : Int, tree : BOOLEAN]
      BY Types DEF SampRec
    <3>3. [samp EXCEPT !.tree = no, !.ref = samp.ref - 3]
            \in [state : SampState, os : Schedulers \cup {NoOs}, thread_id : {-1, 0},
                 use_xthread : BOOLEAN, ref : Int, tree : BOOLEAN]
      BY <1>2, <3>1, <3>2, UnloadType, Zenon
    <3> QED BY <1>2, <3>3, Zenon DEF SampInt
  <2> QED BY <1>2, <2>1, Types DEF SampRec
<1>6. samp'.tree = FALSE
  <2>1. samp'.tree = no
    BY <1>2, Types DEF SampRec
  <2> QED BY <1>3, <2>1, Zenon
<1>7. /\ Cmds' = Cmds /\ adm' \in [Admins -> AdmState]
      /\ \A b \in Admins : adm'[b] = IF b = a THEN "done" ELSE adm[b]
  <2>1. "done" \in AdmState \ {"idle", "config"} /\ adm[a] \notin {"idle", "config"}
    BY <1>1 DEF AdmState
  <2> QED BY <1>1, <2>1, CmdsStay
<1>8. samp'.ref - Base' - Cardinality(Cmds') - Cardinality(Cbs')
        = samp.ref - Base - Cardinality(Cmds) - Cardinality(Cbs)
  <2> DEFINE z == IF samp.os = NoOs THEN 0 ELSE 1
  <2>1. samp'.tree # TRUE
    BY <1>6, Zenon
  <2>2. Base = 3 + z /\ Base' = 0 + z
    BY <1>4, <1>5, <2>1, Zenon DEF Base
  <2>3. z \in Nat /\ Cbs' = Cbs
    BY <1>1 DEF Cbs
  <2>4. Cardinality(Cmds) \in Nat /\ Cardinality(Cbs) \in Nat
    BY RefsSum DEF IInv
  <2> HIDE DEF z
  <2> QED BY <1>5, <1>7, <2>2, <2>3, <2>4, Types
<1>9. ClaimsExact' /\ Scheduled'
  BY <1>1, <1>5 DEF IInv, ClaimsExact, Scheduled
<1>10. OneCommand'
  <2>1. \A b \in Admins : adm'[b] # "unload"
    BY <1>4, <1>7
  <2>2. /\ \A b \in Admins : adm'[b] = "join" => adm[b] = "join"
    BY <1>7
  <2>3. /\ \A b \in Admins : adm'[b] = "join" => samp'.os \in Exclusive /\ timer' = NoOs
        /\ \A b, c \in Admins : adm'[b] = "join" /\ adm'[c] = "join" => b = c
    BY <1>1, <1>5, <2>2 DEF IInv, OneCommand
  <2>4. samp'.state = "TERMINATING"
    BY <1>4, <1>5
  <2> QED BY <2>1, <2>3, <2>4 DEF OneCommand
<1>11. bad' \in Fault /\ FaultsAreRaces'
  BY <1>1, NoFault
<1> QED BY <1>1, <1>5, <1>7, <1>8, <1>9, <1>10, <1>11, Types, Conclude

\* The reference "find" is put when a command ends, or before it configures.
LEMMA FindPutKeeps ==
  ASSUME IInv, NEW a \in Admins, FindPut(a) \/ ConfigPut(a)
  PROVE  IInv'
<1>1. /\ adm[a] \in {"find", "done"} /\ bad' = "none" /\ cmds' = cmds
      /\ term' = term /\ thr' = thr /\ timer' = timer /\ claims' = claims
      /\ samp' = [samp EXCEPT !.ref = samp.ref - 1]
  BY Types DEF FindPut, ConfigPut, SampRec, Alive
<1>2. PICK s \in {"idle", "config"} : adm' = [adm EXCEPT ![a] = s]
  BY DEF FindPut, ConfigPut
<1>3. /\ samp' \in SampInt /\ samp'.ref = samp.ref - 1 /\ samp'.os = samp.os
      /\ samp'.thread_id = samp.thread_id /\ samp'.state = samp.state /\ samp'.tree = samp.tree
  BY <1>1, Types DEF SampRec, SampInt
<1>4. /\ adm' \in [Admins -> AdmState]
      /\ \A b \in Admins : adm'[b] = IF b = a THEN s ELSE adm[b]
  BY <1>2, Types DEF AdmState
<1>5. samp'.ref - Base' - Cardinality(Cmds') - Cardinality(Cbs')
        = samp.ref - Base - Cardinality(Cmds) - Cardinality(Cbs)
  <2>1. Cmds = Cmds' \cup {a} /\ a \notin Cmds' /\ Cmds' \in SUBSET Admins
    BY <1>1, <1>4 DEF Cmds
  <2>2. Cardinality(Cmds) = Cardinality(Cmds') + 1 /\ Cardinality(Cmds') \in Nat
    BY <2>1, Finite, FS_AddElement
  <2>3. Base' = Base
    BY <1>3, Zenon DEF Base
  <2>4. Cbs' = Cbs
    BY <1>1 DEF Cbs
  <2>5. Cardinality(Cbs) \in Nat /\ Base \in Nat
    BY RefsSum DEF IInv
  <2> QED BY <1>3, <2>2, <2>3, <2>4, <2>5, Types
<1>6. ClaimsExact' /\ Scheduled'
  BY <1>1, <1>3 DEF IInv, ClaimsExact, Scheduled
<1>7. OneCommand'
  BY <1>1, <1>3, <1>4 DEF IInv, OneCommand
<1>8. bad' \in Fault /\ FaultsAreRaces'
  BY <1>1, NoFault
<1> QED BY <1>1, <1>3, <1>4, <1>5, <1>6, <1>7, <1>8, Types, Conclude

\* The steps of a scheduler thread that leave the sampler alone.
LEMMA LoopKeeps ==
  ASSUME IInv, NEW t \in Schedulers, LoopBegin(t) \/ LoopEnd(t) \/ Fire(t) \/ CbSample(t)
  PROVE  IInv'
<1>1. /\ bad' = "none" /\ cmds' = cmds /\ adm' = adm /\ term' = term /\ timer' = timer
      /\ claims' = claims /\ samp' = samp
  BY DEF LoopBegin, LoopEnd, Fire, CbSample, ThrGoes, Alive
<1>2. PICK s \in ThrState : /\ thr' = [thr EXCEPT ![t] = s]
                            /\ (thr[t] \in {"got", "put"}) = (s \in {"got", "put"})
  BY DEF LoopBegin, LoopEnd, Fire, CbSample, ThrGoes, ThrState
<1>3. thr' \in [Schedulers -> ThrState] /\ Cardinality(Cbs') = Cardinality(Cbs)
  BY <1>2, CbsMove
<1>4. samp' \in SampInt
  BY <1>1, Types DEF SampRec, SampInt
<1>5. samp'.ref - Base' - Cardinality(Cmds') - Cardinality(Cbs')
        = samp.ref - Base - Cardinality(Cmds) - Cardinality(Cbs)
  <2>1. Cmds' = Cmds /\ Base' = Base
    BY <1>1, Zenon DEF Cmds, Base
  <2> QED BY <1>1, <1>3, <2>1, SameCount
<1>6. ClaimsExact' /\ Scheduled' /\ OneCommand'
  BY <1>1 DEF IInv, ClaimsExact, Scheduled, OneCommand
<1>7. bad' \in Fault /\ FaultsAreRaces'
  BY <1>1, NoFault
<1> QED BY <1>1, <1>3, <1>4, <1>5, <1>6, <1>7, Types, Conclude

\* plugin_sampler_cb() takes and puts its reference.
LEMMA CbRefKeeps ==
  ASSUME IInv, NEW t \in Schedulers, CbGet(t) \/ CbPut(t)
  PROVE  IInv'
<1>1. /\ cmds' = cmds /\ adm' = adm /\ term' = term /\ timer' = timer /\ claims' = claims
  BY DEF CbGet, CbPut, ThrGoes
<1>2. bad' = "none" \/ (Freed /\ bad' = "freed")
  BY DEF CbGet, CbPut, Alive
<1>3. PICK s \in ThrState, k \in {-1, 1} :
        /\ thr' = [thr EXCEPT ![t] = s] /\ samp' = [samp EXCEPT !.ref = samp.ref + k]
        /\ Cardinality(Cbs') = Cardinality(Cbs) + k
  <2>1. Cardinality(Cbs) \in Nat
    BY RefsSum DEF IInv
  <2>2. CASE CbGet(t)
    <3>1. /\ thr' = [thr EXCEPT ![t] = "got"] /\ samp' = [samp EXCEPT !.ref = samp.ref + 1]
          /\ thr[t] = "fired" /\ "got" \in ThrState
      BY <2>2, Types DEF CbGet, ThrGoes, SampRec, ThrState
    <3>2. Cardinality(Cbs') = Cardinality(Cbs) + 1
      BY <3>1, CbsMove
    <3> QED BY <3>1, <3>2
  <2>3. CASE CbPut(t)
    <3>1. /\ thr' = [thr EXCEPT ![t] = "idle"] /\ samp' = [samp EXCEPT !.ref = samp.ref - 1]
          /\ thr[t] = "put" /\ "idle" \in ThrState
      BY <2>3, Types DEF CbPut, ThrGoes, SampRec, ThrState
    <3>2. Cardinality(Cbs') = Cardinality(Cbs) - 1
      BY <3>1, CbsMove
    <3>3. samp.ref - 1 = samp.ref + (-1) /\ Cardinality(Cbs) - 1 = Cardinality(Cbs) + (-1)
      BY <2>1, Types
    <3> QED BY <3>1, <3>2, <3>3
  <2> QED BY <2>2, <2>3
<1>4. thr' \in [Schedulers -> ThrState]
  BY <1>3, CbsMove
<1>5. /\ samp' \in SampInt /\ samp'.ref = samp.ref + k /\ samp'.os = samp.os
      /\ samp'.thread_id = samp.thread_id /\ samp'.state = samp.state /\ samp'.tree = samp.tree
  BY <1>3, Types DEF SampRec, SampInt
<1>6. samp'.ref - Base' - Cardinality(Cmds') - Cardinality(Cbs')
        = samp.ref - Base - Cardinality(Cmds) - Cardinality(Cbs)
  <2>1. Base' = Base
    BY <1>5, Zenon DEF Base
  <2>2. Cmds' = Cmds
    BY <1>1 DEF Cmds
  <2>3. Cardinality(Cbs) \in Nat /\ Cardinality(Cmds) \in Nat /\ Base \in Nat
    BY RefsSum DEF IInv
  <2> QED BY <1>3, <1>5, <2>1, <2>2, <2>3, Types
<1>7. ClaimsExact' /\ Scheduled' /\ OneCommand'
  BY <1>1, <1>5 DEF IInv, ClaimsExact, Scheduled, OneCommand
<1>8. bad' \in Fault /\ FaultsAreRaces'
  <2>1. CASE bad' = "none"
    BY <2>1, NoFault
  <2>2. CASE Freed /\ bad' = "freed"
    BY <1>1, <1>5, <2>2, FreedMeans DEF Fault, FaultsAreRaces
  <2> QED BY <1>2, <2>1, <2>2
<1> QED BY <1>1, <1>4, <1>5, <1>6, <1>7, <1>8, Types, Conclude

\* stop_sampler() after a failed sample finds the claim and "start", or does harm.
LEMMA CbFailKeeps ==
  ASSUME IInv, NEW t \in Schedulers, CbFail(t)
  PROVE  IInv'
<1>1. /\ cmds' = cmds /\ adm' = adm /\ term' = term /\ thr' = [thr EXCEPT ![t] = "put"]
      /\ thr[t] = "got" /\ bad = "none" /\ \A b \in Admins : adm[b] # "join"
      /\ bad' = (IF samp.os = NoOs THEN "null" ELSE IF samp.thread_id = -1 THEN "claim" ELSE bad)
  BY DEF CbFail, ThrGoes, Alive, Locked
<1>2. Shared # NoOs
  BY SchedulerAssumption DEF Schedulers
<1>3. thr' \in [Schedulers -> ThrState] /\ Cbs' = Cbs /\ Cmds' = Cmds
  <2>1. /\ thr' \in [Schedulers -> ThrState]
        /\ \A u \in Schedulers : thr'[u] = IF u = t THEN "put" ELSE thr[u]
    BY <1>1, Types DEF ThrState
  <2> QED BY <1>1, <2>1 DEF Cbs, Cmds
<1>4. CASE samp.os = NoOs \/ samp.thread_id = -1
  <2>1. samp' = samp /\ timer' = timer /\ claims' = claims /\ bad' \in {"null", "claim"}
    BY <1>1, <1>4 DEF CbFail
  <2>2. samp' \in SampInt
    BY <2>1, Types DEF SampRec, SampInt
  <2>3. samp'.ref - Base' - Cardinality(Cmds') - Cardinality(Cbs')
          = samp.ref - Base - Cardinality(Cmds) - Cardinality(Cbs)
    <3>1. Base' = Base
      BY <2>1, Zenon DEF Base
    <3> QED BY <1>3, <2>1, <3>1, SameCount
  <2>4. ClaimsExact' /\ Scheduled' /\ OneCommand'
    BY <1>1, <2>1 DEF IInv, ClaimsExact, Scheduled, OneCommand
  <2>5. bad' \in Fault /\ FaultsAreRaces'
    <3>1. CASE samp.os = NoOs
      <4>1. timer = NoOs /\ bad' = "null"
        BY <1>1, <3>1 DEF IInv, ClaimsExact
      <4> QED BY <2>1, <3>1, <4>1 DEF Fault, FaultsAreRaces
    <3>2. CASE samp.os # NoOs
      <4>1. samp.os # Shared /\ bad' = "claim"
        BY <1>1, <1>4, <3>2 DEF IInv, Scheduled
      <4>2. samp.os \in Exclusive
        BY <3>2, <4>1, Types DEF Schedulers
      <4> QED BY <2>1, <4>1, <4>2 DEF Fault, FaultsAreRaces
    <3> QED BY <3>1, <3>2
  <2> QED BY <1>1, <1>3, <2>1, <2>2, <2>3, <2>4, <2>5, Types, Conclude
<1>5. CASE samp.os # NoOs /\ samp.thread_id # -1
  <2>1. samp.os = Shared /\ claims = 1
    BY <1>5 DEF IInv, Scheduled, ClaimsExact
  <2>2. timer' = NoOs /\ claims' = 0 /\ bad' = "none" /\ samp' = Unscheduled(samp)
    BY <1>1, <1>5, <2>1 DEF CbFail
  <2>3. /\ samp' \in SampInt /\ samp'.ref = samp.ref - 1 /\ samp'.os = NoOs
        /\ samp'.thread_id = -1 /\ samp'.state = samp.state /\ samp'.tree = samp.tree
    BY <2>2, Types, UnscheduledFields
  <2>4. samp'.ref - Base' - Cardinality(Cmds') - Cardinality(Cbs')
          = samp.ref - Base - Cardinality(Cmds) - Cardinality(Cbs)
    BY <1>3, <1>5, <2>3, BaseDrops
  <2>5. ClaimsExact' /\ Scheduled'
    BY <1>2, <2>2, <2>3 DEF ClaimsExact, Scheduled
  <2>6. OneCommand'
    BY <1>1, <2>3 DEF IInv, OneCommand
  <2>7. bad' \in Fault /\ FaultsAreRaces'
    BY <2>2, NoFault
  <2> QED BY <1>1, <1>3, <2>2, <2>3, <2>4, <2>5, <2>6, <2>7, Types, Conclude
<1> QED BY <1>4, <1>5

\* The invariant holds in the beginning ...
LEMMA InitKeeps == Init => IInv
<1> SUFFICES ASSUME Init PROVE IInv
  OBVIOUS
<1>1. /\ samp.state = "INIT" /\ samp.os = NoOs /\ samp.thread_id = -1 /\ samp.ref = 3
      /\ timer = NoOs /\ claims = 0 /\ term = {} /\ cmds = 0 /\ bad = "none"
      /\ \A t \in Schedulers : thr[t] \in {"idle", "none"}
      /\ \A a \in Admins : adm[a] = "idle"
  BY DEF Init
<1>2. samp.tree = TRUE
  BY Zenon DEF Init
<1>3. TypeOK
  <2>1. samp \in [state : SampState, os : Schedulers \cup {NoOs}, thread_id : {-1, 0},
                  use_xthread : BOOLEAN, ref : Nat, tree : BOOLEAN]
    BY DEF Init, SampState
  <2>2. thr \in [Schedulers -> ThrState] /\ adm \in [Admins -> AdmState]
    BY DEF Init, ThrState, AdmState
  <2>3. bad \in Fault
    BY <1>1 DEF Fault
  <2> QED BY <1>1, <2>1, <2>2, <2>3, SchedulerAssumption DEF TypeOK
<1>4. RefsExact
  <2>1. Cmds = {} /\ Cbs = {}
    BY <1>1 DEF Cmds, Cbs
  <2>2. Cardinality(Cmds) = 0 /\ Cardinality(Cbs) = 0
    BY <2>1, FS_EmptySet
  <2>3. Base = 3
    <3>1. Base = 3 + 0
      BY <1>1, <1>2, Zenon DEF Base
    <3> QED BY <3>1
  <2> QED BY <1>1, <1>3, <2>2, <2>3, RefsSum
<1>5. Shared # NoOs
  BY SchedulerAssumption DEF Schedulers
<1>6. ClaimsExact /\ Scheduled /\ OneCommand
  BY <1>1, <1>2, <1>5 DEF ClaimsExact, Scheduled, OneCommand
<1>7. FaultsAreRaces
  BY <1>1 DEF FaultsAreRaces
<1> QED BY <1>3, <1>4, <1>6, <1>7 DEF IInv

\* ... and every step keeps it.
LEMMA NextKeeps == ASSUME IInv, [Next]_vars PROVE IInv'
<1>1. ASSUME NEW a \in Admins, Find(a) \/ Executes(a) \/ Finishes(a) PROVE IInv'
  BY <1>1, FindKeeps, PlainCommandKeeps, ConfigKeeps, StartKeeps, StopSharedKeeps,
     StopExclusiveKeeps, TermPluginKeeps, JoinedKeeps, UnloadKeeps, FindPutKeeps
  DEF Executes, Finishes
<1>2. ASSUME NEW t \in Schedulers, ThreadStep(t) PROVE IInv'
  BY <1>2, LoopKeeps, CbRefKeeps, CbFailKeeps DEF ThreadStep
<1>3. CASE UNCHANGED vars
  BY <1>3 DEF vars, IInv, TypeOK, RefsExact, ClaimsExact, FaultsAreRaces, Scheduled, OneCommand
<1> QED BY <1>1, <1>2, <1>3 DEF Next

\* It is an invariant of the sampler.
THEOREM Invariance == Spec => []IInv
<1>1. IInv /\ [Next]_vars => IInv'
  BY NextKeeps
<1> QED BY <1>1, InitKeeps, PTL DEF Spec

\* Every variable has its type; in particular no reference is put twice.
THEOREM TypeCorrect == Spec => []TypeOK
<1>1. IInv => TypeOK
  BY DEF IInv
<1> QED BY <1>1, Invariance, PTL

\* Every reference to a sampler has a holder: its timer, a command, a callback or
\* the tree.
THEOREM RefsAreExact == Spec => []RefsExact
<1>1. IInv => RefsExact
  BY DEF IInv
<1> QED BY <1>1, Invariance, PTL

\* The shared scheduler's thread counts a sampler exactly while it is on it, and a
\* timer is in the heap that samp->os names.
THEOREM ClaimsAreExact == Spec => []ClaimsExact
<1>1. IInv => ClaimsExact
  BY DEF IInv
<1> QED BY <1>1, Invariance, PTL

\* A sampler is used after it was freed only when it was unloaded and its timer was
\* gone, stop_sampler() meets no scheduler only when the sampler was stopped
\* meanwhile, and a claim that was not made only on an exclusive scheduler.
THEOREM OnlyRacesFail == Spec => []FaultsAreRaces
<1>1. IInv => FaultsAreRaces
  BY DEF IInv
<1> QED BY <1>1, Invariance, PTL
=============================================================================
