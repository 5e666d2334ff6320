--------------------------- MODULE PrdcrSetProofs ---------------------------
(***************************************************************************)
(* The references of producer sets, for any names and any number of sets,  *)
(* whatever falls between a request, its completion, a deletion by the     *)
(* peer and the loss of the connection.                                    *)
(***************************************************************************)
EXTENDS PrdcrSet, TLAPS

SetRecord == [name : Names \cup {NoName}, state : SetState, ref : Nat,
              tree : BOOLEAN, set : BOOLEAN, fresh : BOOLEAN,
              io : BOOLEAN, pdel : BOOLEAN, look : BOOLEAN,
              read : {"none", "lookup", "update"}, cb : 0..MaxCb,
              bad : Fault]

\* A set that has references for all its holders and k more that the code is about
\* to put.  What a set of the producer waits for is told by its state, and a set
\* has one request at a time until it has left the producer.
Owed(p, k) ==
    /\ p \in SetRecord /\ p.bad = "none"
    /\ p.ref >= Holders(p) + k
    /\ p.tree /\ (p.state # "UPDATING" \/ p.read = "update") => p.ref = Holders(p) + k
    /\ p.tree /\ p.look => p.state = "LOOKUP"
    /\ p.tree /\ p.read = "lookup" => p.state = "LOOKUP"
    /\ p.tree /\ p.read = "update" => p.state = "UPDATING"
    /\ p.tree /\ p.state = "START" => ~p.set
    /\ p.look => ~p.set /\ p.read = "none"
    /\ p.read = "lookup" => ~p.set

\* Between two steps nothing is owed, unless the daemon has failed.
Sound(p) ==
    /\ p \in SetRecord /\ p.bad \notin {"put", "looked"}
    /\ p.bad = "none" => Owed(p, 0)

\* The local ldms_set of the slot's name exists.
HasLocal(p) == p.set \/ p.read = "lookup"

\* The producer has one set of a name, and the name has one local ldms_set.
OneSetPerName ==
    \A s, t \in Slots :
      ps[s].name = ps[t].name /\ (\/ ps[s].tree /\ ps[t].tree
                                  \/ HasLocal(ps[s]) /\ HasLocal(ps[t])) => s = t

IInv == TypeOK /\ (\A s \in Slots : Sound(ps[s])) /\ OneSetPerName
-----------------------------------------------------------------------------
(* What each operation does to one set. *)

\* The fields of a set have their types.
LEMMA Fields ==
    ASSUME NEW p \in SetRecord
    PROVE  /\ p.name \in Names \cup {NoName} /\ p.state \in SetState /\ p.ref \in Nat
           /\ p.tree \in BOOLEAN /\ p.set \in BOOLEAN /\ p.fresh \in BOOLEAN
           /\ p.io \in BOOLEAN /\ p.pdel \in BOOLEAN /\ p.look \in BOOLEAN
           /\ p.read \in {"none", "lookup", "update"} /\ p.cb \in 0..MaxCb /\ p.bad \in Fault
           /\ p.cb \in Nat
BY PrdcrSetAssumption DEF SetRecord

\* The number of holders, field by field.
LEMMA HoldersNat ==
    ASSUME NEW p \in SetRecord
    PROVE  /\ Holders(p) \in Nat
           /\ p.tree => Holders(p) >= 3
           /\ p.cb > 0 => Holders(p) >= 1
           /\ p.read = "update" => Holders(p) >= 2
           /\ p.look \/ p.read = "lookup" => Holders(p) >= 1
BY Fields DEF Holders

\* A free slot is sound.
LEMMA NoSetSound ==
    /\ NoSet \in SetRecord /\ Sound(NoSet) /\ Owed(NoSet, 0)
    /\ ~NoSet.tree /\ ~HasLocal(NoSet) /\ NoSet.bad = "none"
<1>1. NoSet \in SetRecord
  BY PrdcrSetAssumption DEF SetRecord, NoSet, SetState, Fault
<1>2. ~NoSet.tree /\ ~HasLocal(NoSet) /\ NoSet.bad = "none"
  BY DEF NoSet, HasLocal
<1>3. Owed(NoSet, 0)
  BY <1>1 DEF Owed, NoSet, Holders
<1> QED BY <1>1, <1>2, <1>3 DEF Sound

\* Only the count changes.
LEMMA CountOnly ==
    ASSUME NEW p \in SetRecord, NEW r \in Nat
    PROVE  LET q == [p EXCEPT !.ref = r] IN
             /\ q \in SetRecord /\ q.ref = r
             /\ q.name = p.name /\ q.state = p.state /\ q.tree = p.tree /\ q.set = p.set
             /\ q.look = p.look /\ q.read = p.read /\ q.cb = p.cb /\ q.bad = p.bad
             /\ Holders(q) = Holders(p)
BY DEF SetRecord, Holders

\* References that are owed can be put: nobody else needs them.
LEMMA PutOwed ==
    ASSUME NEW j \in Nat, NEW k \in Nat, NEW q, Owed(q, j + k)
    PROVE  /\ q.ref > k => /\ Put(q, k) = [q EXCEPT !.ref = q.ref - k]
                           /\ Owed(Put(q, k), j)
           /\ q.ref <= k => Put(q, k) = NoSet /\ j = 0
<1>1. q \in SetRecord /\ q.bad = "none" /\ q.ref \in Nat /\ Holders(q) \in Nat
  BY Fields, HoldersNat DEF Owed
<1>2. q.ref >= Holders(q) + (j + k)
  BY DEF Owed
<1>3. ASSUME q.ref > k
      PROVE  Put(q, k) = [q EXCEPT !.ref = q.ref - k] /\ Owed(Put(q, k), j)
  <2>1. Put(q, k) = [q EXCEPT !.ref = q.ref - k]
    BY <1>3 DEF Put
  <2>2. PICK r \in Nat : r = q.ref - k
    BY <1>1, <1>3
  <2>3. PICK v : v = [q EXCEPT !.ref = r]
    OBVIOUS
  <2>4. /\ v \in SetRecord /\ v.ref = r
        /\ v.state = q.state /\ v.tree = q.tree /\ v.set = q.set
        /\ v.look = q.look /\ v.read = q.read /\ v.bad = q.bad
        /\ Holders(v) = Holders(q)
    BY <1>1, <2>2, <2>3, CountOnly
  <2>5. r >= Holders(v) + j
    BY <1>1, <1>2, <2>2, <2>4
  <2>6. q.ref = Holders(q) + (j + k) => r = Holders(v) + j
    BY <1>1, <2>2, <2>4
  <2>7. Owed(v, j)
    BY <1>1, <2>4, <2>5, <2>6 DEF Owed
  <2> QED BY <2>1, <2>2, <2>3, <2>7
<1>4. ASSUME q.ref <= k
      PROVE  Put(q, k) = NoSet /\ j = 0
  <2>1. j = 0 /\ q.ref = k
    BY <1>1, <1>2, <1>4
  <2>2. Put(q, k) = [NoSet EXCEPT !.bad = "none"]
    BY <1>1, <2>1 DEF Put
  <2>3. [NoSet EXCEPT !.bad = "none"] = NoSet
    BY NoSetSound DEF SetRecord
  <2> QED BY <2>1, <2>2, <2>3
<1> QED BY <1>3, <1>4

\* What follows an operation is no new set of the producer and no new local set.
Keeps(p, q) ==
    /\ q.tree => p.tree /\ q.name = p.name
    /\ HasLocal(q) => HasLocal(p) /\ q.name = p.name

\* After the last reference that is owed was put, the set is sound or free.
LEMMA PutSound ==
    ASSUME NEW k \in Nat, NEW q, Owed(q, k)
    PROVE  Sound(Put(q, k)) /\ Keeps(q, Put(q, k))
<1>1. Owed(q, 0 + k)
  <2>1. 0 + k = k
    OBVIOUS
  <2> QED BY <2>1
<1>2. q \in SetRecord /\ q.ref \in Nat
  BY Fields DEF Owed
<1>3. CASE q.ref > k
  <2>1. Put(q, k) = [q EXCEPT !.ref = q.ref - k] /\ Owed(Put(q, k), 0)
    BY <1>1, <1>3, PutOwed
  <2>2. q.ref - k \in Nat
    BY <1>2, <1>3
  <2>3. Keeps(q, Put(q, k))
    BY <1>2, <2>1, <2>2, CountOnly DEF Keeps, HasLocal
  <2> QED BY <2>1, <2>3 DEF Sound, Owed
<1>4. CASE q.ref <= k
  <2>1. Put(q, k) = NoSet
    BY <1>1, <1>4, PutOwed
  <2> QED BY <2>1, NoSetSound DEF Keeps
<1> QED BY <1>2, <1>3, <1>4

\* The four states.
LEMMA States ==
    "START" \in SetState /\ "LOOKUP" \in SetState /\ "READY" \in SetState /\ "UPDATING" \in SetState
BY DEF SetState

\* __prdcr_reset_set() puts the three references of a set that leaves the producer.
LEMMA ResetOwed ==
    ASSUME NEW j \in Nat, NEW p, Owed(p, j), p.tree
    PROVE  \E q : /\ Owed(q, j + 3) /\ Reset(p) = Put(q, 3)
                  /\ q.tree = FALSE /\ q.name = p.name /\ q.set = p.set /\ q.read = p.read
<1> DEFINE no == FALSE  st == "START"
           q == [p EXCEPT !.tree = no, !.state = st]
<1>1. p \in SetRecord /\ p.bad = "none" /\ p.ref \in Nat /\ Holders(p) \in Nat
  BY Fields, HoldersNat DEF Owed
<1>2. Reset(p) = Put(q, 3)
  BY DEF Reset
<1>3. no \in BOOLEAN /\ no = FALSE /\ st \in SetState /\ st = "START"
  BY States
<1> HIDE DEF no, st
<1>4. /\ q \in SetRecord /\ q.tree = no /\ q.state = st /\ q.ref = p.ref /\ q.name = p.name
      /\ q.set = p.set /\ q.look = p.look /\ q.read = p.read /\ q.cb = p.cb /\ q.bad = p.bad
  BY <1>1, <1>3, Zenon DEF SetRecord
<1> HIDE DEF q
<1>5. Holders(q) + 3 = Holders(p)
  BY <1>1, <1>3, <1>4, Fields DEF Holders
<1>6. Holders(q) \in Nat /\ q.ref >= Holders(q) + (j + 3)
  BY <1>1, <1>4, <1>5, HoldersNat DEF Owed
<1>7. Owed(q, j + 3)
  BY <1>1, <1>3, <1>4, <1>6 DEF Owed
<1> QED BY <1>2, <1>3, <1>4, <1>7

\* The reset of a set of the producer, with nothing else owed.
LEMMA ResetSound ==
    ASSUME NEW p, Owed(p, 0), p.tree
    PROVE  Sound(Reset(p)) /\ Keeps(p, Reset(p))
<1>1. PICK q : /\ Owed(q, 0 + 3) /\ Reset(p) = Put(q, 3)
               /\ q.tree = FALSE /\ q.name = p.name /\ q.set = p.set /\ q.read = p.read
  BY ResetOwed
<1>2. Owed(q, 3)
  BY <1>1
<1>3. Sound(Put(q, 3)) /\ Keeps(q, Put(q, 3))
  BY <1>2, PutSound
<1> QED BY <1>1, <1>3 DEF Keeps, HasLocal

\* A lookup that is posted or refused.
LEMMA LookupSound ==
    ASSUME NEW p, Owed(p, 0), p.tree, p.state = "START"
    PROVE  ~p.set /\ Sound(Lookup(p)) /\ Keeps(p, Lookup(p))
<1>1. /\ p \in SetRecord /\ p.bad = "none" /\ p.ref \in Nat /\ Holders(p) \in Nat
      /\ p.ref = Holders(p) /\ ~p.set /\ ~p.look /\ p.read = "none"
  BY Fields, HoldersNat DEF Owed
<1>2. CASE Lookup(p) = p
  BY <1>1, <1>2 DEF Sound, Owed, Keeps
<1>3. CASE Lookup(p) # p
  <2> DEFINE st == "LOOKUP"  r == p.ref + 1  yes == TRUE
             q == [p EXCEPT !.state = st, !.ref = r, !.look = yes]
  <2>1. Lookup(p) = q
    BY <1>3 DEF Lookup
  <2>2. st \in SetState /\ st = "LOOKUP" /\ r \in Nat /\ r = p.ref + 1 /\ yes \in BOOLEAN /\ yes = TRUE
    BY <1>1, States
  <2> HIDE DEF st, r, yes
  <2>3. /\ q \in SetRecord /\ q.look = yes /\ q.state = st /\ q.ref = r /\ q.name = p.name
        /\ q.set = p.set /\ q.tree = p.tree /\ q.read = p.read /\ q.cb = p.cb /\ q.bad = p.bad
    BY <1>1, <2>2, Zenon DEF SetRecord
  <2> HIDE DEF q
  <2>4. Holders(q) = Holders(p) + 1
    BY <1>1, <2>2, <2>3, Fields DEF Holders
  <2>5. q.ref = Holders(q) + 0 /\ q.ref >= Holders(q) + 0
    BY <1>1, <2>2, <2>3, <2>4
  <2>6. Owed(q, 0)
    BY <1>1, <2>2, <2>3, <2>5 DEF Owed
  <2> QED BY <1>1, <2>1, <2>3, <2>6 DEF Sound, Keeps, HasLocal
<1> QED BY <1>1, <1>2, <1>3

\* An update that is posted, refused at once, or given up without memory.
LEMMA UpdateSound ==
    ASSUME NEW p, Owed(p, 0), p.tree, p.state = "READY",
           NEW q \in Update(p) \cup {UpdateNoMem(p)}
    PROVE  Sound(q) /\ Keeps(p, q)
<1>1. /\ p \in SetRecord /\ p.bad = "none" /\ p.ref \in Nat /\ Holders(p) \in Nat
      /\ p.ref = Holders(p) /\ ~p.look /\ p.read = "none"
  <2>1. p \in SetRecord /\ p.read \in {"none", "lookup", "update"}
    BY Fields DEF Owed
  <2> QED BY <2>1, Fields, HoldersNat DEF Owed
\* Every outcome writes the state, the count, LDMS_SET_F_IO and the read.
<1>2. /\ q \in SetRecord /\ q.look = p.look /\ q.state = "UPDATING" /\ q.name = p.name
      /\ q.set = p.set /\ q.tree = p.tree /\ q.cb = p.cb /\ q.bad = p.bad
      /\ \/ q.read = "none" /\ q.ref \in {p.ref, p.ref + 1}
         \/ q.read = "update" /\ q.ref = p.ref + 2
  <2> DEFINE st == "UPDATING"  yes == TRUE  r == p.ref + 1  rr == r + 1  rd == "update"
             u == [p EXCEPT !.state = st, !.ref = r]
             v == [u EXCEPT !.io = yes]
             w == [u EXCEPT !.io = yes, !.ref = rr, !.read = rd]
             n == [p EXCEPT !.state = st]
  <2>1. q \in {u, v, w, n}
    <3>1. u.ref + 1 = rr
      BY <1>1 DEF SetRecord
    <3> QED BY <3>1 DEF Update, UpdateNoMem
  <2>2. /\ st \in SetState /\ st = "UPDATING" /\ yes \in BOOLEAN /\ r \in Nat /\ r = p.ref + 1
        /\ rr \in Nat /\ rr = p.ref + 2 /\ rd \in {"none", "lookup", "update"} /\ rd = "update"
    BY <1>1, States
  <2> HIDE DEF st, yes, r, rr, rd
  <2>3. /\ u \in SetRecord /\ u.look = p.look /\ u.state = st /\ u.name = p.name
        /\ u.set = p.set /\ u.tree = p.tree /\ u.cb = p.cb /\ u.bad = p.bad
        /\ u.read = p.read /\ u.ref = r
    BY <1>1, <2>2, Zenon DEF SetRecord
  <2>4. /\ n \in SetRecord /\ n.look = p.look /\ n.state = st /\ n.name = p.name
        /\ n.set = p.set /\ n.tree = p.tree /\ n.cb = p.cb /\ n.bad = p.bad
        /\ n.read = p.read /\ n.ref = p.ref
    BY <1>1, <2>2, Zenon DEF SetRecord
  <2> HIDE DEF u, n
  <2>5. /\ v \in SetRecord /\ v.look = u.look /\ v.state = u.state /\ v.name = u.name
        /\ v.set = u.set /\ v.tree = u.tree /\ v.cb = u.cb /\ v.bad = u.bad
        /\ v.read = u.read /\ v.ref = u.ref
    BY <2>2, <2>3, Zenon DEF SetRecord
  <2>6. /\ w \in SetRecord /\ w.look = u.look /\ w.state = u.state /\ w.name = u.name
        /\ w.set = u.set /\ w.tree = u.tree /\ w.cb = u.cb /\ w.bad = u.bad
        /\ w.read = rd /\ w.ref = rr
    BY <2>2, <2>3, Zenon DEF SetRecord
  <2> HIDE DEF v, w
  <2>7. CASE q = u
    BY <1>1, <2>2, <2>3, <2>7
  <2>8. CASE q = v
    BY <1>1, <2>2, <2>3, <2>5, <2>8
  <2>9. CASE q = w
    BY <1>1, <2>2, <2>3, <2>6, <2>9
  <2>10. CASE q = n
    BY <1>1, <2>2, <2>4, <2>10
  <2> QED BY <2>1, <2>7, <2>8, <2>9, <2>10
<1>4. Holders(q) = Holders(p) + (IF q.read = "update" THEN 2 ELSE 0)
  BY <1>1, <1>2, Fields DEF Holders
<1>5. /\ q.ref >= Holders(q) + 0
      /\ q.read = "update" => q.ref = Holders(q) + 0
  BY <1>1, <1>2, <1>4
<1>6. Owed(q, 0)
  BY <1>1, <1>2, <1>5 DEF Owed
<1> QED BY <1>1, <1>2, <1>6 DEF Sound, Keeps, HasLocal

\* The callback of a failed lookup, as far as its unlock: p has lost the request, and
\* the reference of the request is owed.
LEMMA FailedSound ==
    ASSUME NEW p, Owed(p, 1), ~p.look, p.read = "none", ~p.set,
           p.tree => p.state # "UPDATING",
           NEW reset \in BOOLEAN, reset => p.cb < MaxCb
    PROVE  Sound(Failed(p, reset)) /\ Keeps(p, Failed(p, reset))
<1> DEFINE st == "START"
           q == [p EXCEPT !.state = st]
           c == p.cb + 1
           v == [q EXCEPT !.cb = c]
<1>1. /\ p \in SetRecord /\ p.bad = "none" /\ p.ref \in Nat /\ Holders(p) \in Nat
      /\ p.cb \in Nat /\ p.cb \in 0..MaxCb /\ MaxCb \in Nat
  BY Fields, HoldersNat, PrdcrSetAssumption DEF Owed
<1>2. st \in SetState /\ st = "START"
  BY States
<1> HIDE DEF st
<1>3. /\ q \in SetRecord /\ q.look = p.look /\ q.state = st /\ q.name = p.name
      /\ q.set = p.set /\ q.tree = p.tree /\ q.cb = p.cb /\ q.bad = p.bad
      /\ q.read = p.read /\ q.ref = p.ref
  BY <1>1, <1>2, Zenon DEF SetRecord
<1>4. Failed(p, reset) = IF reset THEN [q EXCEPT !.cb = q.cb + 1] ELSE Put(q, 1)
  BY DEF Failed, st
<1> HIDE DEF q
<1>5. Holders(q) = Holders(p)
  BY <1>3 DEF Holders
<1>6. p.ref >= Holders(p) + 1 /\ (p.tree => p.ref = Holders(p) + 1)
  BY DEF Owed
<1>7. CASE ~reset
  <2>1. Owed(q, 1)
    BY <1>1, <1>2, <1>3, <1>5, <1>6 DEF Owed
  <2>2. Sound(Put(q, 1)) /\ Keeps(q, Put(q, 1))
    BY <2>1, PutSound
  <2>3. Keeps(p, Put(q, 1))
    BY <1>3, <2>2 DEF Keeps, HasLocal
  <2> QED BY <1>4, <1>7, <2>2, <2>3
<1>8. CASE reset
  <2>1. Failed(p, reset) = v
    BY <1>3, <1>4, <1>8
  <2>2. c \in 0..MaxCb /\ c = p.cb + 1
    BY <1>1, <1>8
  <2> HIDE DEF c
  <2>3. /\ v \in SetRecord /\ v.look = q.look /\ v.state = q.state /\ v.name = q.name
        /\ v.set = q.set /\ v.tree = q.tree /\ v.cb = c /\ v.bad = q.bad
        /\ v.read = q.read /\ v.ref = q.ref
    BY <1>3, <2>2, Zenon DEF SetRecord
  <2> HIDE DEF v
  <2>4. Holders(v) = Holders(p) + 1
    BY <1>1, <1>3, <2>2, <2>3, Fields DEF Holders
  <2>5. v.ref >= Holders(v) + 0 /\ (v.tree => v.ref = Holders(v) + 0)
    BY <1>1, <1>3, <1>6, <2>3, <2>4
  <2>6. Owed(v, 0)
    BY <1>1, <1>2, <1>3, <2>3, <2>5 DEF Owed
  <2> QED BY <1>1, <1>3, <2>1, <2>3, <2>6 DEF Sound, Keeps, HasLocal
<1> QED BY <1>7, <1>8

\* The callback of a complete lookup.
LEMMA LookupDoneSound ==
    ASSUME NEW p, Owed(p, 1), ~p.look, p.read = "none", ~p.set,
           p.tree => p.state # "UPDATING"
    PROVE  /\ Sound(LookupDone(p))
           /\ LookupDone(p).tree => p.tree
           /\ LookupDone(p).tree \/ HasLocal(LookupDone(p)) => LookupDone(p).name = p.name
<1> DEFINE st == "READY"  yes == TRUE
           q == [p EXCEPT !.state = st, !.set = yes, !.fresh = yes]
<1>1. /\ p \in SetRecord /\ p.bad = "none" /\ p.ref \in Nat /\ Holders(p) \in Nat
  BY Fields, HoldersNat DEF Owed
<1>2. LookupDone(p) = Put(q, 1)
  BY DEF LookupDone
<1>3. st \in SetState /\ st = "READY" /\ yes \in BOOLEAN
  BY States
<1> HIDE DEF st, yes
<1>4. /\ q \in SetRecord /\ q.look = p.look /\ q.state = st /\ q.name = p.name
      /\ q.tree = p.tree /\ q.cb = p.cb /\ q.bad = p.bad
      /\ q.read = p.read /\ q.ref = p.ref
  BY <1>1, <1>3, Zenon DEF SetRecord
<1> HIDE DEF q
<1>5. Holders(q) = Holders(p)
  BY <1>4 DEF Holders
<1>6. p.ref >= Holders(p) + 1 /\ (p.tree => p.ref = Holders(p) + 1)
  BY DEF Owed
<1>7. Owed(q, 1)
  BY <1>1, <1>3, <1>4, <1>5, <1>6 DEF Owed
<1>8. Sound(Put(q, 1)) /\ Keeps(q, Put(q, 1))
  BY <1>7, PutSound
<1> QED BY <1>2, <1>4, <1>8, NoSetSound DEF Keeps

\* A set that has left the producer may be kept by references nobody puts.
LEMMA OwedLess ==
    ASSUME NEW p, NEW k \in Nat, Owed(p, k), ~p.tree
    PROVE  Owed(p, 0) /\ Sound(p)
<1>1. p.ref \in Nat /\ Holders(p) \in Nat
  BY Fields, HoldersNat DEF Owed
<1>2. p.ref >= Holders(p) + 0
  BY <1>1 DEF Owed
<1> QED BY <1>2 DEF Owed, Sound

\* The peer's answer is here: the reference of the request is owed.
LEMMA ReplyOwed ==
    ASSUME NEW p, Owed(p, 0), p.look
    PROVE  LET q == [p EXCEPT !.look = FALSE] IN
             /\ Owed(q, 1) /\ ~q.look /\ q.read = "none" /\ ~q.set
             /\ q.tree => q.state # "UPDATING"
             /\ q.name = p.name /\ q.tree = p.tree /\ q.cb = p.cb
<1> DEFINE no == FALSE
           q == [p EXCEPT !.look = no]
<1>1. p \in SetRecord /\ p.ref \in Nat /\ Holders(p) \in Nat /\ p.cb \in Nat /\ p.tree \in BOOLEAN
  BY Fields, HoldersNat DEF Owed
<1>2. no \in BOOLEAN /\ no = FALSE
  OBVIOUS
<1> HIDE DEF no
<1>3. /\ q \in SetRecord /\ q.look = no /\ q.state = p.state /\ q.name = p.name
      /\ q.set = p.set /\ q.tree = p.tree /\ q.cb = p.cb /\ q.bad = p.bad
      /\ q.read = p.read /\ q.ref = p.ref
  BY <1>1, <1>2, Zenon DEF SetRecord
<1>4. q = [p EXCEPT !.look = FALSE]
  BY DEF no
<1> HIDE DEF q
<1>5. Holders(p) = Holders(q) + 1 /\ Holders(q) \in Nat
  BY <1>1, <1>2, <1>3, HoldersNat DEF Holders
<1>6. p.ref = Holders(p) + 0 => q.ref = Holders(q) + 1
  BY <1>1, <1>3, <1>5
<1>7. p.ref >= Holders(p) + 0 => q.ref >= Holders(q) + 1
  BY <1>1, <1>3, <1>5
<1>8. Owed(q, 1)
  BY <1>2, <1>3, <1>6, <1>7 DEF Owed
<1>9. ~q.look /\ q.read = "none" /\ ~q.set /\ (q.tree => q.state # "UPDATING")
  BY <1>2, <1>3 DEF Owed
<1> QED BY <1>3, <1>4, <1>8, <1>9

\* A read is over: the references of its request are owed.
LEMMA ReadOwed ==
    ASSUME NEW p, Owed(p, 0), NEW k \in Nat,
           \/ p.read = "lookup" /\ k = 1
           \/ p.read = "update" /\ k = 2,
           NEW q \in SetRecord, q.read = "none", q.look = p.look, q.state = p.state,
           q.set = p.set, q.tree = p.tree, q.cb = p.cb, q.bad = p.bad, q.ref = p.ref
    PROVE  /\ Owed(q, k) /\ ~q.look
           /\ q.tree => q.ref = Holders(q) + k
<1>1. p \in SetRecord /\ p.ref \in Nat /\ Holders(p) \in Nat /\ p.cb \in Nat
  BY Fields, HoldersNat DEF Owed
<1>5. Holders(p) = Holders(q) + k /\ Holders(q) \in Nat
  BY <1>1, HoldersNat DEF Holders
<1>6. p.ref = Holders(p) + 0 => q.ref = Holders(q) + k
  BY <1>1, <1>5
<1>7. p.ref >= Holders(p) + 0 => q.ref >= Holders(q) + k
  BY <1>1, <1>5
<1>8. q.tree => q.ref = Holders(q) + k
  BY <1>6 DEF Owed
<1>9. Owed(q, k)
  BY <1>7, <1>8 DEF Owed
<1>10. ~q.look
  BY DEF Owed
<1> QED BY <1>8, <1>9, <1>10

\* The rest of a failed lookup's callback, on a set of the producer or on one that has
\* left it meanwhile.
LEMMA LookupResetSound ==
    ASSUME NEW p, Owed(p, 0), p.cb > 0
    PROVE  LET q == Put(Reset([p EXCEPT !.cb = p.cb - 1]), 1) IN Sound(q) /\ Keeps(p, q)
<1> DEFINE c == p.cb - 1
           u == [p EXCEPT !.cb = c]
<1>1. /\ p \in SetRecord /\ p.ref \in Nat /\ Holders(p) \in Nat /\ p.cb \in Nat
      /\ p.cb \in 0..MaxCb /\ MaxCb \in Nat /\ p.bad = "none"
  BY Fields, HoldersNat, PrdcrSetAssumption DEF Owed
<1>2. c \in 0..MaxCb /\ c \in Nat /\ p.cb = c + 1
  BY <1>1
<1>3. u = [p EXCEPT !.cb = p.cb - 1]
  OBVIOUS
<1> HIDE DEF c
<1>4. /\ u \in SetRecord /\ u.look = p.look /\ u.state = p.state /\ u.name = p.name
      /\ u.set = p.set /\ u.tree = p.tree /\ u.cb = c /\ u.bad = p.bad
      /\ u.read = p.read /\ u.ref = p.ref
  BY <1>1, <1>2, Zenon DEF SetRecord
<1> HIDE DEF u
<1>5. Holders(p) = Holders(u) + 1 /\ Holders(u) \in Nat
  BY <1>1, <1>2, <1>4, HoldersNat DEF Holders
<1>6. Owed(u, 1)
  <2>1. p.ref = Holders(p) + 0 => u.ref = Holders(u) + 1
    BY <1>1, <1>4, <1>5
  <2>2. p.ref >= Holders(p) + 0 => u.ref >= Holders(u) + 1
    BY <1>1, <1>4, <1>5
  <2> QED BY <1>4, <2>1, <2>2 DEF Owed
<1>7. CASE p.tree
  <2>1. PICK q : /\ Owed(q, 1 + 3) /\ Reset(u) = Put(q, 3)
                 /\ q.tree = FALSE /\ q.name = u.name /\ q.set = u.set /\ q.read = u.read
    BY <1>4, <1>6, <1>7, ResetOwed
  <2>2. q \in SetRecord /\ q.ref \in Nat /\ Holders(q) \in Nat
    BY <2>1, Fields, HoldersNat DEF Owed
  <2>3. q.ref > 3
    BY <2>1, <2>2 DEF Owed
  <2>4. Put(q, 3) = [q EXCEPT !.ref = q.ref - 3] /\ Owed(Put(q, 3), 1)
    BY <2>1, <2>3, PutOwed
  <2>5. Keeps(p, Put(q, 3))
    <3>1. PICK r \in Nat : r = q.ref - 3
      BY <2>2, <2>3
    <3>2. LET w == [q EXCEPT !.ref = r] IN
          w.tree = q.tree /\ w.set = q.set /\ w.name = q.name /\ w.read = q.read
      BY <2>2, CountOnly
    <3>3. Put(q, 3) = [q EXCEPT !.ref = r]
      BY <2>4, <3>1
    <3> QED BY <1>4, <2>1, <3>2, <3>3 DEF Keeps, HasLocal
  <2>6. Sound(Put(Put(q, 3), 1)) /\ Keeps(Put(q, 3), Put(Put(q, 3), 1))
    BY <2>4, PutSound
  <2>7. Keeps(p, Put(Put(q, 3), 1))
    BY <2>5, <2>6 DEF Keeps
  <2> QED BY <1>3, <2>1, <2>6, <2>7
<1>8. CASE ~p.tree
  <2> DEFINE b == "reset"
             v == [u EXCEPT !.bad = b]
             r == v.ref - 1
  <2>1. Reset(u) = v
    BY <1>4, <1>8 DEF Reset
  <2>2. b \in Fault /\ b = "reset"
    BY DEF Fault
  <2> HIDE DEF b
  <2>3. /\ v \in SetRecord /\ v.set = p.set /\ v.tree = p.tree /\ v.bad = b /\ v.name = p.name
        /\ v.read = p.read /\ v.ref = p.ref
    <3>1. /\ v \in SetRecord /\ v.set = u.set /\ v.tree = u.tree /\ v.bad = b /\ v.name = u.name
          /\ v.read = u.read /\ v.ref = u.ref
      BY <1>4, <2>2, Zenon DEF SetRecord
    <3> QED BY <1>4, <3>1
  <2> HIDE DEF v
  <2>4. p.ref >= 1
    BY <1>1, HoldersNat DEF Owed
  <2>5. CASE v.ref > 1
    <3>1. r \in Nat /\ Put(v, 1) = [v EXCEPT !.ref = r]
      BY <1>1, <2>3, <2>5 DEF Put
    <3>2. PICK rr \in Nat : rr = r
      BY <3>1
    <3>3. LET w == [v EXCEPT !.ref = rr] IN
          w \in SetRecord /\ w.bad = "reset" /\ w.tree = p.tree /\ w.set = p.set
            /\ w.name = p.name /\ w.read = p.read
      BY <2>2, <2>3, <3>2, CountOnly
    <3>4. Put(v, 1) = [v EXCEPT !.ref = rr]
      BY <3>1, <3>2
    <3> QED BY <1>3, <2>1, <3>3, <3>4 DEF Sound, Keeps, HasLocal
  <2>6. CASE ~(v.ref > 1)
    <3>1. Put(v, 1) = [NoSet EXCEPT !.bad = b]
      BY <1>1, <2>2, <2>3, <2>4, <2>6 DEF Put
    <3>2. [NoSet EXCEPT !.bad = b] \in SetRecord /\ [NoSet EXCEPT !.bad = b].bad = b
          /\ [NoSet EXCEPT !.bad = b].tree = NoSet.tree /\ [NoSet EXCEPT !.bad = b].set = NoSet.set
          /\ [NoSet EXCEPT !.bad = b].read = NoSet.read
      BY <2>2, NoSetSound, Zenon DEF SetRecord
    <3> QED BY <1>3, <2>1, <2>2, <3>1, <3>2, NoSetSound DEF Sound, Keeps, HasLocal
  <2> QED BY <2>5, <2>6
<1> QED BY <1>7, <1>8

\* A complete or failed update.
LEMMA UpdateDoneSound ==
    ASSUME NEW p, Owed(p, 0), p.read = "update"
    PROVE  LET q == [p EXCEPT !.read = "none", !.io = p.pdel] IN
             /\ Sound(Put(q, 2)) /\ Keeps(p, Put(q, 2))
             /\ Sound(Put([q EXCEPT !.state = "READY"], 2))
             /\ Keeps(p, Put([q EXCEPT !.state = "READY"], 2))
<1> DEFINE n == "none"
           q == [p EXCEPT !.read = n, !.io = p.pdel]
           st == "READY"
           v == [q EXCEPT !.state = st]
<1>1. p \in SetRecord /\ p.pdel \in BOOLEAN
  BY Fields DEF Owed
<1>2. n \in {"none", "lookup", "update"} /\ n = "none"
  OBVIOUS
<1>6. v = [q EXCEPT !.state = "READY"] /\ q = [p EXCEPT !.read = "none", !.io = p.pdel]
  OBVIOUS
<1> HIDE DEF n
<1>3. /\ q \in SetRecord /\ q.look = p.look /\ q.state = p.state /\ q.name = p.name
      /\ q.set = p.set /\ q.tree = p.tree /\ q.cb = p.cb /\ q.bad = p.bad
      /\ q.read = n /\ q.ref = p.ref
  BY <1>1, <1>2, Zenon DEF SetRecord
<1> HIDE DEF q
<1>4. Owed(q, 2) /\ ~q.look /\ (q.tree => q.ref = Holders(q) + 2)
  <2>1. PICK k \in Nat : k = 2
    OBVIOUS
  <2>2. Owed(q, k) /\ ~q.look /\ (q.tree => q.ref = Holders(q) + k)
    BY <1>2, <1>3, <2>1, ReadOwed
  <2> QED BY <2>1, <2>2
<1>5. st \in SetState /\ st = "READY"
  BY States
<1> HIDE DEF st
<1>7. Sound(Put(q, 2)) /\ Keeps(q, Put(q, 2))
  BY <1>4, PutSound
<1>8. /\ v \in SetRecord /\ v.look = q.look /\ v.state = st /\ v.name = q.name
      /\ v.set = q.set /\ v.tree = q.tree /\ v.cb = q.cb /\ v.bad = q.bad
      /\ v.read = q.read /\ v.ref = q.ref
  <2>1. q \in SetRecord
    BY <1>4 DEF Owed
  <2> QED BY <1>5, <2>1, Zenon DEF SetRecord
<1> HIDE DEF v
<1>9. Holders(v) = Holders(q)
  BY <1>8 DEF Holders
<1>10. Owed(v, 2)
  BY <1>2, <1>3, <1>4, <1>5, <1>8, <1>9 DEF Owed
<1>11. Sound(Put(v, 2)) /\ Keeps(v, Put(v, 2))
  BY <1>10, PutSound
<1>12. Keeps(p, Put(q, 2)) /\ Keeps(p, Put(v, 2))
  BY <1>2, <1>3, <1>7, <1>8, <1>11 DEF Keeps, HasLocal
<1> QED BY <1>6, <1>7, <1>11, <1>12
-----------------------------------------------------------------------------
(* The steps. *)

\* The part of the invariant about the sets, and the types of everything else.
PsOK ==
    /\ ps \in [Slots -> SetRecord]
    /\ \A s \in Slots : Sound(ps[s])
    /\ OneSetPerName

RestOK ==
    /\ conn \in {"up", "losing", "down"}
    /\ peer \in [Names -> {"absent", "offered", "known"}]
    /\ dirq \subseteq Names
    /\ del \in [Names -> {"none", "sent", "event"}]
    /\ adding \in Slots \cup {NoSlot}
    /\ updtr \in {"STOPPED", "RUNNING", "STOPPING"}

\* They make up the invariant.
LEMMA Parts == IInv <=> PsOK /\ RestOK
BY DEF IInv, TypeOK, PsOK, RestOK, SetRecord

\* Before a step no set has failed, so all are sound with nothing owed.
LEMMA AliveOwed ==
    ASSUME PsOK, Alive, NEW s \in Slots
    PROVE  Owed(ps[s], 0) /\ ps[s] \in SetRecord
BY DEF PsOK, Alive, Sound

\* A step after which every set is sound, and none is new.
LEMMA AllKept ==
    ASSUME PsOK, ps' \in [Slots -> SetRecord],
           \A t \in Slots : Sound(ps'[t]) /\ Keeps(ps[t], ps'[t])
    PROVE  PsOK'
<1>1. OneSetPerName'
  BY DEF PsOK, OneSetPerName, Keeps
<1> QED BY <1>1 DEF PsOK

\* The same for a step of one set.
LEMMA OneKept ==
    ASSUME PsOK, NEW s \in Slots, NEW q, ps' = [ps EXCEPT ![s] = q],
           Sound(q), Keeps(ps[s], q)
    PROVE  PsOK'
<1>1. ps' = [t \in Slots |-> IF t = s THEN q ELSE ps[t]]
  BY DEF PsOK
<1>2. \A t \in Slots : /\ Sound(IF t = s THEN q ELSE ps[t])
                       /\ Keeps(ps[t], IF t = s THEN q ELSE ps[t])
  BY DEF PsOK, Keeps
<1>3. \A t \in Slots : ps'[t] = IF t = s THEN q ELSE ps[t]
  BY <1>1
<1>4. \A t \in Slots : Sound(ps'[t]) /\ Keeps(ps[t], ps'[t])
  BY <1>2, <1>3
<1>5. ps' \in [Slots -> SetRecord]
  BY <1>1, <1>4, <1>3 DEF Sound
<1> QED BY <1>4, <1>5, AllKept

\* The updater's visit.
LEMMA ScheduleOK ==
    ASSUME PsOK, NEW s \in Slots, Schedule(s)
    PROVE  PsOK'
<1>1. Owed(ps[s], 0) /\ ps[s].tree
  BY AliveOwed DEF Schedule
<1>2. CASE /\ ps[s].state = "START"
           /\ ps' = [ps EXCEPT ![s] =
                        IF ps[s].set THEN [ps[s] EXCEPT !.bad = "looked"] ELSE Lookup(ps[s])]
  <2>1. ~ps[s].set /\ Sound(Lookup(ps[s])) /\ Keeps(ps[s], Lookup(ps[s]))
    BY <1>1, <1>2, LookupSound
  <2>2. ps' = [ps EXCEPT ![s] = Lookup(ps[s])]
    BY <1>2, <2>1
  <2> QED BY <2>1, <2>2, OneKept
<1>3. CASE /\ ps[s].state = "READY"
           /\ \E p \in Update(ps[s]) \cup {UpdateNoMem(ps[s])} : ps' = [ps EXCEPT ![s] = p]
  <2>1. PICK p \in Update(ps[s]) \cup {UpdateNoMem(ps[s])} : ps' = [ps EXCEPT ![s] = p]
    BY <1>3
  <2>2. Sound(p) /\ Keeps(ps[s], p)
    BY <1>1, <1>3, <2>1, UpdateSound
  <2> QED BY <2>1, <2>2, OneKept
<1> QED BY <1>2, <1>3, Zenon DEF Schedule

\* The first second after a lookup is over.
LEMMA SettleOK ==
    ASSUME PsOK, NEW s \in Slots, Settle(s)
    PROVE  PsOK'
<1>1. Owed(ps[s], 0) /\ ps[s] \in SetRecord
  BY AliveOwed DEF Settle
<1> DEFINE no == FALSE
           q == [ps[s] EXCEPT !.fresh = no]
<1>2. ps' = [ps EXCEPT ![s] = q] /\ no \in BOOLEAN
  BY DEF Settle
<1> HIDE DEF no
<1>3. /\ q \in SetRecord /\ q.look = ps[s].look /\ q.state = ps[s].state /\ q.name = ps[s].name
      /\ q.set = ps[s].set /\ q.tree = ps[s].tree /\ q.cb = ps[s].cb /\ q.bad = ps[s].bad
      /\ q.read = ps[s].read /\ q.ref = ps[s].ref
  BY <1>1, <1>2, Zenon DEF SetRecord
<1>4. PICK e : e = q
  OBVIOUS
<1>5. ps' = [ps EXCEPT ![s] = e]
  BY <1>2, <1>4, Zenon
<1> HIDE DEF q
<1>6. Holders(e) = Holders(ps[s])
  BY <1>3, <1>4 DEF Holders
<1>7. Owed(e, 0) /\ Keeps(ps[s], e)
  BY <1>1, <1>3, <1>4, <1>6 DEF Owed, Keeps, HasLocal
<1> QED BY <1>5, <1>7, OneKept DEF Sound, Owed

\* The reset that ends a failed lookup.
LEMMA LookupResetOK ==
    ASSUME PsOK, NEW s \in Slots, LookupReset(s)
    PROVE  PsOK'
<1>1. Owed(ps[s], 0) /\ ps[s].cb > 0
  BY AliveOwed DEF LookupReset
<1>2. PICK q : q = Put(Reset([ps[s] EXCEPT !.cb = ps[s].cb - 1]), 1)
  OBVIOUS
<1>a. ps' = [ps EXCEPT ![s] = Put(Reset([ps[s] EXCEPT !.cb = ps[s].cb - 1]), 1)]
  BY DEF LookupReset
<1>3. ps' = [ps EXCEPT ![s] = q]
  BY <1>a, <1>2, Zenon
<1>4. Sound(q) /\ Keeps(ps[s], q)
  BY <1>1, <1>2, LookupResetSound
<1> QED BY <1>3, <1>4, OneKept

\* The completion of an update.
LEMMA UpdateDoneOK ==
    ASSUME PsOK, NEW s \in Slots, UpdateDone(s)
    PROVE  PsOK'
<1>1. Owed(ps[s], 0) /\ ps[s].read = "update"
  BY AliveOwed DEF UpdateDone
<1>2. PICK q : q = [ps[s] EXCEPT !.read = "none", !.io = ps[s].pdel]
  OBVIOUS
<1>3. PICK v : v \in {Put(q, 2), Put([q EXCEPT !.state = "READY"], 2)} /\ ps' = [ps EXCEPT ![s] = v]
  BY <1>2 DEF UpdateDone
<1>4. Sound(v) /\ Keeps(ps[s], v)
  BY <1>1, <1>2, <1>3, UpdateDoneSound
<1> QED BY <1>3, <1>4, OneKept

\* The end of a lookup's read.
LEMMA LookupReadOK ==
    ASSUME PsOK, NEW s \in Slots, LookupRead(s)
    PROVE  PsOK'
<1> DEFINE n == "none"  no == FALSE
           q == [ps[s] EXCEPT !.read = n, !.io = no, !.pdel = no]
<1>1. Owed(ps[s], 0) /\ ps[s] \in SetRecord /\ ps[s].read = "lookup"
  BY AliveOwed DEF LookupRead
<1>2. \/ ps[s].cb < MaxCb /\ ps' = [ps EXCEPT ![s] = Failed(q, TRUE)]
      \/ ps' = [ps EXCEPT ![s] = LookupDone(q)]
  BY DEF LookupRead
<1>3. n \in {"none", "lookup", "update"} /\ n = "none" /\ no \in BOOLEAN
  OBVIOUS
<1> HIDE DEF n, no
<1>4. /\ q \in SetRecord /\ q.look = ps[s].look /\ q.state = ps[s].state /\ q.name = ps[s].name
      /\ q.set = ps[s].set /\ q.tree = ps[s].tree /\ q.cb = ps[s].cb /\ q.bad = ps[s].bad
      /\ q.read = n /\ q.ref = ps[s].ref
  BY <1>1, <1>3, Zenon DEF SetRecord
<1>5. PICK e : e = q
  OBVIOUS
<1>6. \/ ps[s].cb < MaxCb /\ ps' = [ps EXCEPT ![s] = Failed(e, TRUE)]
      \/ ps' = [ps EXCEPT ![s] = LookupDone(e)]
  BY <1>2, <1>5, Zenon
<1> HIDE DEF q
<1>7. Owed(e, 1) /\ ~e.look
  <2>1. PICK k \in Nat : k = 1
    OBVIOUS
  <2>2. Owed(e, k) /\ ~e.look
    BY <1>1, <1>3, <1>4, <1>5, <2>1, ReadOwed
  <2> QED BY <2>1, <2>2
<1>8. e.read = "none" /\ ~e.set /\ (e.tree => e.state # "UPDATING")
  BY <1>1, <1>3, <1>4, <1>5 DEF Owed
<1>9. CASE ps[s].cb < MaxCb /\ ps' = [ps EXCEPT ![s] = Failed(e, TRUE)]
  <2>1. TRUE \in BOOLEAN /\ e.cb < MaxCb
    BY <1>4, <1>5, <1>9
  <2>2. Sound(Failed(e, TRUE)) /\ Keeps(e, Failed(e, TRUE))
    BY <1>7, <1>8, <2>1, FailedSound
  <2>3. Keeps(ps[s], Failed(e, TRUE))
    BY <1>4, <1>5, <1>8, <2>2 DEF Keeps, HasLocal
  <2> QED BY <1>9, <2>2, <2>3, OneKept
<1>10. CASE ps' = [ps EXCEPT ![s] = LookupDone(e)]
  <2>1. /\ Sound(LookupDone(e))
        /\ LookupDone(e).tree => e.tree
        /\ LookupDone(e).tree \/ HasLocal(LookupDone(e)) => LookupDone(e).name = e.name
    BY <1>7, <1>8, LookupDoneSound
  <2>2. Keeps(ps[s], LookupDone(e))
    BY <1>1, <1>4, <1>5, <2>1 DEF Keeps, HasLocal
  <2> QED BY <1>10, <2>1, <2>2, OneKept
<1> QED BY <1>6, <1>9, <1>10

\* The peer's answer to a lookup.  Only here a local set is made, and only when there is
\* none of its name.
LEMMA LookupReplyOK ==
    ASSUME PsOK, NEW s \in Slots, LookupReply(s)
    PROVE  PsOK'
<1>1. Owed(ps[s], 0) /\ ps[s] \in SetRecord /\ ps[s].look /\ ps[s].cb < MaxCb
  BY AliveOwed DEF LookupReply
<1>2. PICK q : q = [ps[s] EXCEPT !.look = FALSE]
  OBVIOUS
<1>3. /\ Owed(q, 1) /\ ~q.look /\ q.read = "none" /\ ~q.set
      /\ q.tree => q.state # "UPDATING"
      /\ q.name = ps[s].name /\ q.tree = ps[s].tree /\ q.cb = ps[s].cb
  BY <1>1, <1>2, ReplyOwed
<1>4. \/ ps' = [ps EXCEPT ![s] = Failed(q, TRUE)]
      \/ ps' = [ps EXCEPT ![s] = Failed(q, FALSE)]
      \/ LocalSet(q.name) = {} /\ ps' = [ps EXCEPT ![s] = [q EXCEPT !.read = "lookup", !.io = TRUE]]
  BY <1>2 DEF LookupReply
<1>5. ASSUME NEW reset \in BOOLEAN, ps' = [ps EXCEPT ![s] = Failed(q, reset)]
      PROVE  PsOK'
  <2>1. Sound(Failed(q, reset)) /\ Keeps(q, Failed(q, reset))
    BY <1>1, <1>3, <1>5, FailedSound
  <2>2. Keeps(ps[s], Failed(q, reset))
    BY <1>3, <2>1 DEF Keeps, HasLocal
  <2> QED BY <1>5, <2>1, <2>2, OneKept
<1>6. CASE /\ LocalSet(q.name) = {}
           /\ ps' = [ps EXCEPT ![s] = [q EXCEPT !.read = "lookup", !.io = TRUE]]
  <2> DEFINE l == "lookup"  yes == TRUE
             v == [q EXCEPT !.read = l, !.io = yes]
  <2>1. l \in {"none", "lookup", "update"} /\ l = "lookup" /\ yes \in BOOLEAN
    OBVIOUS
  <2>2. ps' = [ps EXCEPT ![s] = v]
    BY <1>6
  <2> HIDE DEF l, yes
  <2>3. q \in SetRecord /\ q.ref \in Nat /\ Holders(q) \in Nat
    BY <1>3, Fields, HoldersNat DEF Owed
  <2>4. /\ v \in SetRecord /\ v.look = q.look /\ v.state = q.state /\ v.name = q.name
        /\ v.set = q.set /\ v.tree = q.tree /\ v.cb = q.cb /\ v.bad = q.bad
        /\ v.read = l /\ v.ref = q.ref
    BY <2>1, <2>3, Zenon DEF SetRecord
  <2>5. PICK e : e = v
    OBVIOUS
  <2>6. ps' = [ps EXCEPT ![s] = e]
    BY <2>2, <2>5, Zenon
  <2> HIDE DEF v
  <2>7. Holders(e) = Holders(q) + 1
    BY <1>3, <2>1, <2>3, <2>4, <2>5, Fields DEF Holders
  <2>8. Owed(e, 0)
    <3>1. e.ref >= Holders(e) + 0
      BY <1>3, <2>3, <2>4, <2>5, <2>7 DEF Owed
    <3>2. e.tree => e.ref = Holders(e) + 0 /\ e.state = "LOOKUP"
      <4>1. ps[s].tree => ps[s].state = "LOOKUP"
        BY <1>1 DEF Owed
      <4>2. q.state = ps[s].state
        BY <1>1, <1>2 DEF SetRecord
      <4>3. q.tree => q.ref = Holders(q) + 1
        BY <1>3 DEF Owed
      <4> QED BY <1>3, <2>3, <2>4, <2>5, <2>7, <4>1, <4>2, <4>3
    <3> QED BY <1>3, <2>1, <2>4, <2>5, <3>1, <3>2 DEF Owed
  <2>9. Sound(e)
    BY <2>8 DEF Sound, Owed
  <2>10. \A t \in Slots : ps'[t] = IF t = s THEN e ELSE ps[t]
    BY <2>6 DEF PsOK
  <2>11. ps' \in [Slots -> SetRecord] /\ \A t \in Slots : Sound(ps'[t])
    BY <2>6, <2>9, <2>10 DEF PsOK, Sound
  <2>12. \A t \in Slots : HasLocal(ps[t]) => ps[t].name # e.name
    BY <1>6, <2>4, <2>5 DEF LocalSet, HasLocal
  <2>13. OneSetPerName'
    BY <1>3, <2>4, <2>5, <2>10, <2>12 DEF PsOK, OneSetPerName
  <2> QED BY <2>11, <2>13 DEF PsOK
<1>7. TRUE \in BOOLEAN /\ FALSE \in BOOLEAN
  OBVIOUS
<1> QED BY <1>4, <1>5, <1>6, <1>7

\* A new entry of the directory.  Only here a set is added, and only when the producer
\* has none of its name.
LEMMA AddOK ==
    ASSUME PsOK, NEW n \in Names, Add(n)
    PROVE  PsOK'
<1>1. CASE ps' = ps
  BY <1>1 DEF PsOK, OneSetPerName
<1>2. CASE ps' # ps
  <2>1. PICK s \in Slots : /\ InTree(n) = {}
                           /\ ps' = [ps EXCEPT ![s] = [NoSet EXCEPT
                                       !.name = n, !.ref = 3, !.tree = TRUE]]
    BY <1>2 DEF Add
  <2> DEFINE yes == TRUE  r == 3
             v == [NoSet EXCEPT !.name = n, !.ref = r, !.tree = yes]
  <2>2. yes \in BOOLEAN /\ r \in Nat /\ r = 3 /\ yes = TRUE /\ n \in Names \cup {NoName}
    OBVIOUS
  <2>3. ps' = [ps EXCEPT ![s] = v]
    BY <2>1
  <2> HIDE DEF yes, r
  <2>4. /\ v \in SetRecord /\ v.look = NoSet.look /\ v.state = NoSet.state /\ v.name = n
        /\ v.set = NoSet.set /\ v.tree = yes /\ v.cb = NoSet.cb /\ v.bad = NoSet.bad
        /\ v.read = NoSet.read /\ v.ref = r
    BY <2>2, NoSetSound, Zenon DEF SetRecord
  <2>5. PICK e : e = v
    OBVIOUS
  <2>6. ps' = [ps EXCEPT ![s] = e]
    BY <2>3, <2>5, Zenon
  <2> HIDE DEF v
  <2>7. /\ e \in SetRecord /\ e.look = FALSE /\ e.state = "START" /\ e.name = n /\ e.set = FALSE
        /\ e.tree = TRUE /\ e.cb = 0 /\ e.bad = "none" /\ e.read = "none" /\ e.ref = 3
    BY <2>2, <2>4, <2>5 DEF NoSet
  <2>8. Holders(e) = 3
    BY <2>7 DEF Holders
  <2>9. Sound(e) /\ ~HasLocal(e)
    BY <2>7, <2>8 DEF Sound, Owed, HasLocal
  <2>10. \A t \in Slots : ps'[t] = IF t = s THEN e ELSE ps[t]
    BY <2>6 DEF PsOK
  <2>11. ps' \in [Slots -> SetRecord] /\ \A t \in Slots : Sound(ps'[t])
    BY <2>6, <2>7, <2>9, <2>10 DEF PsOK
  <2>12. \A t \in Slots : ps[t].tree => ps[t].name # e.name
    BY <2>1, <2>7 DEF InTree
  <2>13. OneSetPerName'
    BY <2>9, <2>10, <2>12 DEF PsOK, OneSetPerName
  <2> QED BY <2>11, <2>13 DEF PsOK
<1> QED BY <1>1, <1>2

\* The end of _add_cb(), which may find the set freed.
LEMMA AddEndOK ==
    ASSUME PsOK, RestOK, AddEnd
    PROVE  PsOK'
<1>1. CASE ps' = ps
  BY <1>1 DEF PsOK, OneSetPerName
<1>2. CASE ps' # ps
  <2>1. PICK s \in Slots : s = adding
    BY DEF AddEnd, RestOK
  <2> DEFINE b == "added"
             v == [ps[s] EXCEPT !.bad = b]
  <2>2. b \in Fault /\ b = "added"
    BY DEF Fault
  <2>3. ps' = [ps EXCEPT ![s] = v]
    BY <1>2, <2>1 DEF AddEnd
  <2> HIDE DEF b
  <2>4. v \in SetRecord /\ v.bad = b /\ v.tree = ps[s].tree /\ v.name = ps[s].name
        /\ v.set = ps[s].set /\ v.read = ps[s].read
    <3>1. ps[s] \in SetRecord
      BY DEF PsOK
    <3> QED BY <2>2, <3>1, Zenon DEF SetRecord
  <2>5. PICK e : e = v
    OBVIOUS
  <2>6. ps' = [ps EXCEPT ![s] = e]
    BY <2>3, <2>5, Zenon
  <2> HIDE DEF v
  <2>7. Sound(e) /\ Keeps(ps[s], e)
    BY <2>2, <2>4, <2>5 DEF Sound, Keeps, HasLocal
  <2> QED BY <2>6, <2>7, OneKept
<1> QED BY <1>1, <1>2

\* The peer has deleted a set: the local one is marked.
LEMMA SetDeleteOK ==
    ASSUME PsOK, NEW n \in Names, SetDelete(n)
    PROVE  PsOK'
<1> DEFINE yes == TRUE
           F(t) == IF t \in LocalSet(n) THEN [ps[t] EXCEPT !.pdel = yes] ELSE ps[t]
<1>1. ps' = [t \in Slots |-> F(t)] /\ yes \in BOOLEAN
  BY DEF SetDelete
<1> HIDE DEF yes
<1>2. ASSUME NEW t \in Slots
      PROVE  Sound(F(t)) /\ Keeps(ps[t], F(t))
  <2>1. Owed(ps[t], 0) /\ ps[t] \in SetRecord
    BY AliveOwed DEF SetDelete
  <2>2. CASE F(t) = ps[t]
    BY <2>2, <2>1 DEF PsOK, Keeps
  <2>3. CASE F(t) = [ps[t] EXCEPT !.pdel = yes]
    <3>1. PICK e : e = [ps[t] EXCEPT !.pdel = yes]
      OBVIOUS
    <3>2. /\ e \in SetRecord /\ e.look = ps[t].look /\ e.state = ps[t].state /\ e.name = ps[t].name
          /\ e.set = ps[t].set /\ e.tree = ps[t].tree /\ e.cb = ps[t].cb /\ e.bad = ps[t].bad
          /\ e.read = ps[t].read /\ e.ref = ps[t].ref
      BY <1>1, <2>1, <3>1, Zenon DEF SetRecord
    <3>3. Holders(e) = Holders(ps[t])
      BY <3>2 DEF Holders
    <3>4. Owed(e, 0) /\ Keeps(ps[t], e)
      BY <2>1, <3>2, <3>3 DEF Owed, Keeps, HasLocal
    <3>5. Sound(e)
      BY <3>4 DEF Sound, Owed
    <3>6. F(t) = e
      BY <2>3, <3>1, Zenon
    <3> HIDE DEF F
    <3> QED BY <3>4, <3>5, <3>6
  <2> QED BY <2>2, <2>3
<1> HIDE DEF F
<1>3. \A t \in Slots : ps'[t] = F(t)
  BY <1>1
<1>4. ps' \in [Slots -> SetRecord]
  BY <1>1, <1>2 DEF Sound
<1> QED BY <1>2, <1>3, <1>4, AllKept

\* The producer hears of the deletion.
LEMMA DeleteEventOK ==
    ASSUME PsOK, NEW n \in Names, DeleteEvent(n)
    PROVE  PsOK'
<1> DEFINE F(t) == IF t \in InTree(n) THEN Reset(ps[t]) ELSE ps[t]
<1>1. ps' = [t \in Slots |-> F(t)]
  BY DEF DeleteEvent
<1>2. ASSUME NEW t \in Slots
      PROVE  Sound(F(t)) /\ Keeps(ps[t], F(t))
  <2>1. Owed(ps[t], 0)
    BY AliveOwed DEF DeleteEvent
  <2>2. CASE t \in InTree(n)
    <3>1. ps[t].tree
      BY <2>2 DEF InTree
    <3>2. Sound(Reset(ps[t])) /\ Keeps(ps[t], Reset(ps[t]))
      BY <2>1, <3>1, ResetSound
    <3> QED BY <2>2, <3>2
  <2>3. CASE t \notin InTree(n)
    BY <2>3 DEF PsOK, Keeps
  <2> QED BY <2>2, <2>3
<1> HIDE DEF F
<1>3. \A t \in Slots : ps'[t] = F(t)
  BY <1>1
<1>4. ps' \in [Slots -> SetRecord]
  BY <1>1, <1>2 DEF Sound
<1> QED BY <1>2, <1>3, <1>4, AllKept

\* The loss of the connection is reported: the producer is left by all its sets, and a
\* lookup that was not answered leaves its reference.
LEMMA DisconnectedOK ==
    ASSUME PsOK, Disconnected
    PROVE  PsOK'
<1> DEFINE U(t) == [ps[t] EXCEPT !.look = FALSE]
           F(t) == IF U(t).tree THEN Reset(U(t)) ELSE U(t)
<1>1. ps' = [t \in Slots |-> F(t)]
  BY DEF Disconnected
<1>2. ASSUME NEW t \in Slots
      PROVE  Sound(F(t)) /\ Keeps(ps[t], F(t))
  <2>1. Owed(ps[t], 0) /\ ps[t] \in SetRecord /\ ps[t].look \in BOOLEAN
    BY AliveOwed, Fields DEF Disconnected
  <2>2. PICK u : u = U(t)
    OBVIOUS
  <2>3. PICK k \in Nat : Owed(u, k)
    <3>1. CASE ps[t].look
      BY <2>1, <2>2, <3>1, ReplyOwed
    <3>2. CASE ~ps[t].look
      <4>1. U(t) = ps[t]
        BY <2>1, <3>2 DEF SetRecord
      <4> QED BY <2>1, <2>2, <4>1
    <3> QED BY <3>1, <3>2
  <2>4. u.tree = ps[t].tree /\ u.set = ps[t].set /\ u.read = ps[t].read /\ u.name = ps[t].name
    BY <2>1, <2>2 DEF SetRecord
  <2>5. F(t) = IF u.tree THEN Reset(u) ELSE u
    BY <2>2, Zenon
  <2> HIDE DEF F, U
  <2>6. CASE ~u.tree
    <3>1. Sound(u)
      BY <2>3, <2>6, OwedLess
    <3> QED BY <2>4, <2>5, <2>6, <3>1 DEF Keeps, HasLocal
  <2>7. CASE u.tree
    <3>1. PICK q : /\ Owed(q, k + 3) /\ Reset(u) = Put(q, 3)
                   /\ q.tree = FALSE /\ q.name = u.name /\ q.set = u.set /\ q.read = u.read
      BY <2>3, <2>7, ResetOwed
    <3>2. Owed(q, 3)
      <4>1. q.ref \in Nat /\ Holders(q) \in Nat
        BY <3>1, Fields, HoldersNat DEF Owed
      <4>2. q.ref >= Holders(q) + 3
        BY <3>1, <4>1 DEF Owed
      <4> QED BY <3>1, <4>2 DEF Owed
    <3>3. Sound(Put(q, 3)) /\ Keeps(q, Put(q, 3))
      BY <3>2, PutSound
    <3>4. Keeps(ps[t], Put(q, 3))
      BY <2>4, <3>1, <3>3 DEF Keeps, HasLocal
    <3> QED BY <2>5, <2>7, <3>1, <3>3, <3>4
  <2> QED BY <2>6, <2>7
<1> HIDE DEF F
<1>3. \A t \in Slots : ps'[t] = F(t)
  BY <1>1
<1>4. ps' \in [Slots -> SetRecord]
  BY <1>1, <1>2 DEF Sound
<1> QED BY <1>2, <1>3, <1>4, AllKept

\* A step that leaves the sets alone.
LEMMA PsKept ==
    ASSUME PsOK, UNCHANGED ps
    PROVE  PsOK'
BY DEF PsOK, OneSetPerName

\* The types of everything but the sets.
LEMMA RestStep ==
    ASSUME PsOK, RestOK, Next
    PROVE  RestOK'
<1>1. ASSUME NEW n \in Names, PeerCreate(n) \/ PeerDelete(n) \/ Add(n) \/ SetDelete(n) \/ DeleteEvent(n)
      PROVE  RestOK'
  <2>1. CASE PeerCreate(n) \/ PeerDelete(n)
    BY <2>1 DEF PeerCreate, PeerDelete, RestOK
  <2>2. CASE Add(n)
    <3>1. adding' \in Slots \cup {NoSlot}
      BY <2>2 DEF Add, RestOK
    <3> QED BY <2>2, <3>1 DEF Add, RestOK
  <2>3. CASE SetDelete(n) \/ DeleteEvent(n)
    BY <2>3 DEF SetDelete, DeleteEvent, RestOK
  <2> QED BY <1>1, <2>1, <2>2, <2>3
<1>2. CASE Connect \/ Lose \/ Disconnected
  <2>1. CASE Lose
    BY <2>1 DEF Lose, RestOK
  <2> QED BY <1>2, <2>1 DEF Connect, Disconnected, RestOK
<1>3. CASE AddEnd \/ Start \/ Stop \/ StopEnd
  BY <1>3 DEF AddEnd, Start, Stop, StopEnd, RestOK
<1>4. ASSUME NEW s \in Slots, Schedule(s) \/ Completion(s)
      PROVE  RestOK'
  <2>1. CASE Schedule(s) \/ LookupRead(s) \/ LookupReset(s) \/ Settle(s)
    BY <2>1 DEF Schedule, LookupRead, LookupReset, Settle, RestOK
  <2>2. CASE LookupReply(s)
    <3>1. peer' \in [Names -> {"absent", "offered", "known"}]
      BY <2>2 DEF LookupReply, RestOK
    <3> QED BY <2>2, <3>1 DEF LookupReply, RestOK
  <2>3. CASE UpdateDone(s)
    <3>1. del' \in [Names -> {"none", "sent", "event"}]
      BY <2>3 DEF UpdateDone, RestOK
    <3> QED BY <2>3, <3>1 DEF UpdateDone, RestOK
  <2> QED BY <1>4, <2>1, <2>2, <2>3 DEF Completion
<1> QED BY <1>1, <1>2, <1>3, <1>4 DEF Next

\* Every step keeps the sets sound.
LEMMA PsStep ==
    ASSUME PsOK, RestOK, Next
    PROVE  PsOK'
<1>1. ASSUME NEW n \in Names, PeerCreate(n) \/ PeerDelete(n)
      PROVE  UNCHANGED ps
  BY <1>1 DEF PeerCreate, PeerDelete
<1>2. ASSUME Connect \/ Lose \/ Start \/ Stop \/ StopEnd
      PROVE  UNCHANGED ps
  BY <1>2 DEF Connect, Lose, Start, Stop, StopEnd
<1>3. ASSUME NEW n \in Names, Add(n) \/ SetDelete(n) \/ DeleteEvent(n)
      PROVE  PsOK'
  BY <1>3, AddOK, SetDeleteOK, DeleteEventOK
<1>4. ASSUME NEW s \in Slots, Schedule(s) \/ Completion(s)
      PROVE  PsOK'
  BY <1>4, ScheduleOK, LookupReplyOK, LookupReadOK, LookupResetOK, UpdateDoneOK, SettleOK
     DEF Completion
<1> QED BY <1>1, <1>2, <1>3, <1>4, PsKept, DisconnectedOK, AddEndOK DEF Next

\* A producer without sets satisfies the invariant.
LEMMA InitOK == Init => IInv
<1> SUFFICES ASSUME Init PROVE PsOK /\ RestOK
  BY Parts
<1>1. \A s \in Slots : ps[s] = NoSet
  BY DEF Init
<1>2. PsOK
  BY <1>1, NoSetSound DEF Init, PsOK, OneSetPerName
<1> QED BY <1>2 DEF Init, RestOK

\* Every step keeps the invariant.
LEMMA StepOK == IInv /\ [Next]_vars => IInv'
<1> SUFFICES ASSUME PsOK, RestOK, [Next]_vars PROVE PsOK' /\ RestOK'
  BY Parts, Zenon DEF IInv, PsOK, RestOK, TypeOK, SetRecord
<1>1. CASE Next
  BY <1>1, PsStep, RestStep
<1>2. CASE UNCHANGED vars
  BY <1>2, PsKept DEF vars, RestOK
<1> QED BY <1>1, <1>2

\* The inductive invariant holds in every reachable state.
THEOREM Invariance == Spec => []IInv
BY InitOK, StepOK, PTL DEF Spec

\* The producer sets, the peer and the messages have their types.
THEOREM TypeCorrect == Spec => []TypeOK
<1>1. IInv => TypeOK
  BY DEF IInv
<1> QED BY <1>1, Invariance, PTL

\* Every request, callback and tree that refers to a producer set has its reference,
\* and a set of the producer has no other one unless it is UPDATING.
THEOREM RefsAreExact == Spec => []RefsExact
<1>1. IInv => RefsExact
  <2> SUFFICES ASSUME IInv, NEW s \in Slots, ps[s].bad = "none"
               PROVE  /\ ps[s].ref >= Holders(ps[s])
                      /\ ps[s].tree /\ ps[s].state # "UPDATING" => ps[s].ref = Holders(ps[s])
    BY DEF RefsExact
  <2>1. Owed(ps[s], 0)
    BY DEF IInv, Sound
  <2>2. Holders(ps[s]) + 0 = Holders(ps[s])
    BY <2>1, HoldersNat DEF Owed
  <2> QED BY <2>1, <2>2 DEF Owed
<1> QED BY <1>1, Invariance, PTL

\* No reference is put that nobody holds, and no set is looked up that has been:
\* the assertions of ldmsd_prdcr_set_ref_put(), schedule_prdset_updates() and
\* __ldmsd_prdset_lookup_cb() hold.
THEOREM AssertsHold == Spec => []NoAssertFails
<1>1. IInv => NoAssertFails
  BY DEF IInv, Sound, NoAssertFails
<1> QED BY <1>1, Invariance, PTL

\* The producer never has two sets of one name, and there are never two local sets
\* of one name: __handle_lookup() and the rendezvous refuse the second.
THEOREM OneSetOfEachName == Spec => []OneSetPerName
<1>1. IInv => OneSetPerName
  BY DEF IInv
<1> QED BY <1>1, Invariance, PTL
=============================================================================
