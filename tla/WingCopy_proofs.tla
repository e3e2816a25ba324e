--------------------------- MODULE WingCopy_proofs ---------------------------
(***************************************************************************)
(* Proofs about WingCopy, for any wings, drawers and page size and any       *)
(* number of retries, runs, faults and writes of users: the types, that a    *)
(* manifest is only ever written for the drawers file it counts, that a run  *)
(* that ends well loses at most a drawer per deletion under its listing,     *)
(* that a snapshot repeats at most one per addition, and that every step     *)
(* brings a run nearer its end.                                              *)
(***************************************************************************)
EXTENDS WingCopy, SequenceTheorems, FiniteSetTheorems, TLAPS

Records == [id : Drawers, full : BOOLEAN]

----------------------------------------------------------------------------
(* Sequences of distinct elements. *)

\* Removing an element leaves the others as distinct as they were.
LEMMA Removing ==
  ASSUME NEW S, NEW s \in Seq(S), IsInjective(s), NEW i \in 1..Len(s)
  PROVE  /\ RemoveAt(s, i) \in Seq(S) /\ IsInjective(RemoveAt(s, i))
         /\ Len(RemoveAt(s, i)) = Len(s) - 1
         /\ \A j \in 1..Len(s) - 1 :
               RemoveAt(s, i)[j] = IF j <= i - 1 THEN s[j] ELSE s[j + 1]
<1> DEFINE front == SubSeq(s, 1, i - 1)
           back  == SubSeq(s, i + 1, Len(s))
<1>1. Len(s) \in Nat /\ DOMAIN s = 1..Len(s) /\ \A j \in 1..Len(s) : s[j] \in S
  BY LenProperties, ElementOfSeq
<1>2. /\ front \in Seq(S) /\ Len(front) = i - 1
      /\ \A j \in 1..i - 1 : front[j] = s[j]
  <2>1. /\ front \in Seq(S) /\ Len(front) = IF 1 <= i - 1 THEN (i - 1) - 1 + 1 ELSE 0
        /\ \A j \in 1..(i - 1) - 1 + 1 : front[j] = s[1 + j - 1]
    BY <1>1, SubSeqProperties
  <2>2. \A j \in 1..i - 1 : j \in 1..(i - 1) - 1 + 1 /\ 1 + j - 1 = j
    OBVIOUS
  <2> HIDE DEF front
  <2> QED
    BY <2>1, <2>2
<1>3. /\ back \in Seq(S) /\ Len(back) = Len(s) - i
      /\ \A j \in 1..Len(s) - i : back[j] = s[i + j]
  <2>1. /\ back \in Seq(S) /\ Len(back) = IF i + 1 <= Len(s) THEN Len(s) - (i + 1) + 1 ELSE 0
        /\ \A j \in 1..Len(s) - (i + 1) + 1 : back[j] = s[(i + 1) + j - 1]
    <3>1. i + 1 \in Int /\ Len(s) \in Int /\ \A j \in i + 1..Len(s) : s[j] \in S
      BY <1>1
    <3> QED
      BY <3>1, SubSeqProperties
  <2> HIDE DEF back
  <2>2. Len(back) = Len(s) - i
    <3>1. Len(back) = IF i + 1 <= Len(s) THEN Len(s) - (i + 1) + 1 ELSE 0
      BY <2>1
    <3>2. Len(s) \in Nat /\ i \in Nat /\ i <= Len(s)
      BY <1>1
    <3> HIDE DEF front
    <3>3. CASE i = Len(s)
      BY <3>1, <3>2, <3>3
    <3>4. CASE i < Len(s)
      BY <3>1, <3>2, <3>4
    <3> QED
      BY <3>2, <3>3, <3>4
  <2>3. ASSUME NEW j \in 1..Len(s) - i PROVE back[j] = s[i + j]
    <3>1. j \in 1..Len(s) - (i + 1) + 1
      BY <1>1
    <3>2. (i + 1) + j - 1 = i + j
      BY <1>1
    <3> QED
      BY <2>1, <3>1, <3>2
  <2> QED
    BY <2>1, <2>2, <2>3
<1> HIDE DEF front, back
<1>4. /\ front \o back \in Seq(S) /\ Len(front \o back) = Len(s) - 1
      /\ \A j \in 1..Len(s) - 1 : (front \o back)[j] = IF j <= i - 1 THEN s[j] ELSE s[j + 1]
  <2>1. /\ front \o back \in Seq(S) /\ Len(front \o back) = Len(front) + Len(back)
        /\ \A j \in 1..Len(front) + Len(back) : (front \o back)[j] =
              IF j <= Len(front) THEN front[j] ELSE back[j - Len(front)]
    BY <1>2, <1>3, ConcatProperties
  <2>2. Len(front) + Len(back) = Len(s) - 1
    BY <1>1, <1>2, <1>3
  <2>3. ASSUME NEW j \in 1..Len(s) - 1
        PROVE  (front \o back)[j] = IF j <= i - 1 THEN s[j] ELSE s[j + 1]
    <3>1. CASE j <= i - 1
      BY <1>2, <2>1, <2>2, <3>1
    <3>2. CASE ~(j <= i - 1)
      <4>1. j - (i - 1) \in 1..Len(s) - i /\ i + (j - (i - 1)) = j + 1
        BY <1>1, <3>2
      <4> QED
        BY <1>2, <1>3, <2>1, <2>2, <3>2, <4>1
    <3> QED
      BY <3>1, <3>2
  <2> QED
    BY <2>1, <2>2, <2>3
<1>5. RemoveAt(s, i) = front \o back
  BY DEF RemoveAt, front, back
<1>6. DOMAIN (front \o back) = 1..Len(s) - 1
  BY <1>4, LenProperties
<1>7. IsInjective(front \o back)
  <2> DEFINE place(j) == IF j <= i - 1 THEN j ELSE j + 1
  <2>1. SUFFICES ASSUME NEW j \in 1..Len(s) - 1, NEW k \in 1..Len(s) - 1,
                        (front \o back)[j] = (front \o back)[k]
                 PROVE  j = k
    BY <1>6 DEF IsInjective
  <2>2. \A l \in 1..Len(s) - 1 : place(l) \in 1..Len(s) /\ (front \o back)[l] = s[place(l)]
    BY <1>1, <1>4
  <2>3. \A l, m \in 1..Len(s) : s[l] = s[m] => l = m
    BY <1>1 DEF IsInjective
  <2>4. place(j) = place(k)
    <3> HIDE DEF place
    <3> QED
      BY <2>1, <2>2, <2>3
  <2> QED
    BY <1>1, <2>4
<1> QED
  BY <1>4, <1>5, <1>7

\* Inserting an element that is not there keeps them all distinct.
LEMMA Inserting ==
  ASSUME NEW S, NEW s \in Seq(S), IsInjective(s), NEW i \in 1..Len(s) + 1,
         NEW e \in S, e \notin ToSet(s)
  PROVE  /\ InsertAt(s, i, e) \in Seq(S) /\ IsInjective(InsertAt(s, i, e))
         /\ Len(InsertAt(s, i, e)) = Len(s) + 1
         /\ \A j \in 1..Len(s) + 1 : InsertAt(s, i, e)[j] =
               IF j < i THEN s[j] ELSE IF j = i THEN e ELSE s[j - 1]
<1> DEFINE front == SubSeq(s, 1, i - 1)
           back  == SubSeq(s, i, Len(s))
           start == front \o <<e>>
<1>1. Len(s) \in Nat /\ DOMAIN s = 1..Len(s) /\ \A j \in 1..Len(s) : s[j] \in S
  BY LenProperties, ElementOfSeq
<1>2. /\ front \in Seq(S) /\ Len(front) = i - 1
      /\ \A j \in 1..i - 1 : front[j] = s[j]
  <2>1. /\ front \in Seq(S) /\ Len(front) = IF 1 <= i - 1 THEN (i - 1) - 1 + 1 ELSE 0
        /\ \A j \in 1..(i - 1) - 1 + 1 : front[j] = s[1 + j - 1]
    <3>1. 1 \in Int /\ i - 1 \in Int /\ \A j \in 1..i - 1 : s[j] \in S
      BY <1>1
    <3> QED
      BY <3>1, SubSeqProperties
  <2>2. \A j \in 1..i - 1 : j \in 1..(i - 1) - 1 + 1 /\ 1 + j - 1 = j
    BY <1>1
  <2> HIDE DEF front
  <2> QED
    BY <1>1, <2>1, <2>2
<1>3. /\ back \in Seq(S) /\ Len(back) = Len(s) - i + 1
      /\ \A j \in 1..Len(s) - i + 1 : back[j] = s[i + j - 1]
  <2>1. i \in Int /\ Len(s) \in Int /\ \A j \in i..Len(s) : s[j] \in S
    BY <1>1
  <2>2. /\ back \in Seq(S) /\ Len(back) = IF i <= Len(s) THEN Len(s) - i + 1 ELSE 0
        /\ \A j \in 1..Len(s) - i + 1 : back[j] = s[i + j - 1]
    BY <2>1, SubSeqProperties
  <2> HIDE DEF back
  <2> QED
    BY <1>1, <2>2
<1>4. /\ start \in Seq(S) /\ Len(start) = i
      /\ \A j \in 1..i - 1 : start[j] = s[j]
      /\ start[i] = e
  <2>1. start = Append(front, e)
    BY <1>2, AppendIsConcat
  <2> HIDE DEF start, front
  <2>2. /\ start \in Seq(S) /\ Len(start) = Len(front) + 1
        /\ \A j \in 1..Len(front) : start[j] = front[j]
        /\ start[Len(front) + 1] = e
    BY <1>2, <2>1, AppendProperties
  <2>3. Len(front) + 1 = i
    BY <1>1, <1>2
  <2> QED
    BY <1>2, <2>2, <2>3
<1>5. InsertAt(s, i, e) = start \o back
  BY DEF InsertAt
<1> HIDE DEF front, back, start
<1>6. /\ start \o back \in Seq(S) /\ Len(start \o back) = Len(s) + 1
      /\ \A j \in 1..Len(s) + 1 : (start \o back)[j] =
            IF j < i THEN s[j] ELSE IF j = i THEN e ELSE s[j - 1]
  <2>1. /\ start \o back \in Seq(S) /\ Len(start \o back) = Len(start) + Len(back)
        /\ \A j \in 1..Len(start) + Len(back) : (start \o back)[j] =
              IF j <= Len(start) THEN start[j] ELSE back[j - Len(start)]
    BY <1>3, <1>4, ConcatProperties
  <2>2. Len(start) + Len(back) = Len(s) + 1
    BY <1>1, <1>3, <1>4
  <2>3. ASSUME NEW j \in 1..Len(s) + 1
        PROVE  (start \o back)[j] = IF j < i THEN s[j] ELSE IF j = i THEN e ELSE s[j - 1]
    <3>1. CASE j <= i
      BY <1>1, <1>4, <2>1, <2>2, <3>1
    <3>2. CASE ~(j <= i)
      <4>1. j - i \in 1..Len(s) - i + 1 /\ i + (j - i) - 1 = j - 1
        BY <1>1, <3>2
      <4> QED
        BY <1>1, <1>3, <1>4, <2>1, <2>2, <3>2, <4>1
    <3> QED
      BY <3>1, <3>2
  <2> QED
    BY <2>1, <2>2, <2>3
<1>7. DOMAIN (start \o back) = 1..Len(s) + 1
  BY <1>6, LenProperties
<1>8. \A j \in 1..Len(s) : s[j] # e
  BY <1>1 DEF ToSet
<1>9. IsInjective(start \o back)
  <2>1. SUFFICES ASSUME NEW j \in 1..Len(s) + 1, NEW k \in 1..Len(s) + 1,
                        (start \o back)[j] = (start \o back)[k]
                 PROVE  j = k
    BY <1>7 DEF IsInjective
  <2>2. \A l \in 1..Len(s) + 1 : /\ l < i => l \in 1..Len(s)
                                 /\ l > i => l - 1 \in 1..Len(s)
    BY <1>1
  <2>3. \A l, m \in 1..Len(s) : s[l] = s[m] => l = m
    BY <1>1 DEF IsInjective
  <2>4. ASSUME NEW l \in 1..Len(s) + 1, l # i PROVE (start \o back)[l] # e
    <3>1. CASE l < i
      <4>1. l \in 1..Len(s) /\ (start \o back)[l] = s[l]
        BY <1>6, <2>2, <3>1
      <4> QED
        BY <1>8, <4>1
    <3>2. CASE l > i
      <4>1. l - 1 \in 1..Len(s) /\ (start \o back)[l] = s[l - 1]
        BY <1>6, <2>2, <3>2
      <4> QED
        BY <1>8, <4>1
    <3>3. l < i \/ l > i
      <4>1. Len(s) \in Nat
        BY <1>1
      <4> QED
        BY <2>4, <4>1
    <3> QED
      BY <3>1, <3>2, <3>3
  <2>5. CASE j = i \/ k = i
    <3>1. (start \o back)[i] = e
      BY <1>1, <1>6
    <3> QED
      BY <2>1, <2>4, <2>5, <3>1
  <2>6. CASE j # i /\ k # i
    <3> DEFINE place(l) == IF l < i THEN l ELSE l - 1
    <3>1. \A l \in 1..Len(s) + 1 :
             l # i => place(l) \in 1..Len(s) /\ (start \o back)[l] = s[place(l)]
      BY <1>1, <1>6
    <3>2. place(j) = place(k)
      <4> HIDE DEF place
      <4> QED
        BY <2>1, <2>3, <2>6, <3>1
    <3> QED
      BY <1>1, <2>6, <3>2
  <2> QED
    BY <2>5, <2>6
<1> QED
  BY <1>5, <1>6, <1>9

----------------------------------------------------------------------------
(* The types. *)

\* Where a script may be.
States ==
    /\ pc \in {"idle", "wings", "wing", "list", "fetch", "add", "drawers", "opening",
              "manifest", "done", "dead"}
    /\ pc \in {"list", "fetch", "add"} => wing \in Wings
    /\ pc = "list" => next = 1
    /\ pc \in {"fetch", "add"} => next \in 1..Len(ids)

TypeInv ==
    /\ palace \in [Wings -> Seq(Drawers)] /\ \A w \in Wings : IsInjective(palace[w])
    /\ dest \subseteq Drawers
    /\ script \in {"backup", "migrate"}
    /\ todo \subseteq Wings \ Excluded /\ wing \in Wings \cup {None}
    /\ ids \in Seq(Drawers) /\ records \in Seq(Records)
    /\ attempt \in 1..MaxRetries
    /\ warned \subseteq Wings \cup Drawers
    /\ States

\* Between the two files the drawers file holds what the run has.
Paired == pc \in {"opening", "manifest"} => disk.drawers = records

Inv == TypeInv /\ Paired /\ DOMAIN disk = {"drawers", "manifest"}

\* What is listed of a wing is drawers.
LEMMA InvTypeOK == Inv => TypeOK
<1> SUFFICES ASSUME TypeInv PROVE TypeOK
  BY DEF Inv
<1>1. \A w \in Wings : \A i \in DOMAIN palace[w] : palace[w][i] \in Drawers
  BY LenProperties, ElementOfSeq DEF TypeInv
<1>2. Present \subseteq Drawers
  BY <1>1 DEF Present, ToSet
<1>3. ToSet(ids) \subseteq Drawers
  BY LenProperties, ElementOfSeq DEF ToSet, TypeInv
<1> QED
  BY <1>2, <1>3 DEF TypeInv, TypeOK, States

\* A page is part of a wing, or nothing.
LEMMA PageOfDrawers ==
  ASSUME TypeInv, wing \in Wings
  PROVE  Page(wing, Len(ids)) \in Seq(Drawers)
<1> DEFINE s    == palace[wing]
           last == Min({Len(ids) + PageSize, Len(s)})
<1>1. s \in Seq(Drawers) /\ Len(s) \in Nat /\ \A i \in 1..Len(s) : s[i] \in Drawers
  BY LenProperties, ElementOfSeq DEF TypeInv
<1>2. Len(ids) \in Nat /\ PageSize \in Nat
  BY LenProperties, NumberAssumption DEF TypeInv
<1>3. last \in Int /\ last <= Len(s)
  <2>1. \E x \in {Len(ids) + PageSize, Len(s)} : \A y \in {Len(ids) + PageSize, Len(s)} : x <= y
    BY <1>1, <1>2
  <2>2. /\ last \in {Len(ids) + PageSize, Len(s)}
        /\ \A y \in {Len(ids) + PageSize, Len(s)} : last <= y
    BY <2>1 DEF Min
  <2> QED
    BY <1>1, <1>2, <2>2
<1> HIDE DEF last
<1>4. Len(ids) + 1 \in Int /\ \A i \in Len(ids) + 1..last : s[i] \in Drawers
  BY <1>1, <1>2, <1>3
<1>5. SubSeq(s, Len(ids) + 1, last) \in Seq(Drawers)
  BY <1>3, <1>4, SubSeqProperties
<1> QED
  BY <1>5 DEF Page, last

\* Where a run is after a drawer.
LEMMA AfterDrawer ==
  ASSUME NEW n \in Nat, NEW list \in Seq(Drawers)
  PROVE  /\ After(n, list) \in {"fetch", "wing", "done"}
         /\ After(n, list) = "fetch" => n + 1 \in 1..Len(list)
BY LenProperties DEF After

\* Nothing is listed or written at first.
LEMMA InitInv == Init => Inv
<1> SUFFICES ASSUME Init PROVE Inv
  OBVIOUS
<1>1. <<>> \in Seq(Drawers) /\ <<>> \in Seq(Records)
  BY EmptySeq
<1> QED
  BY <1>1, DrawerAssumption, NumberAssumption DEF Init, Inv, TypeInv, States, Paired

----------------------------------------------------------------------------
(* The steps. *)

\* What a run forgets is of its type.
LEMMA ForgetTypes ==
  ASSUME TypeInv, Forget
  PROVE  /\ todo' \subseteq Wings \ Excluded /\ ids' \in Seq(Drawers) /\ records' \in Seq(Records)
         /\ attempt' \in 1..MaxRetries /\ warned' \subseteq Wings \cup Drawers /\ next' = 1
  BY EmptySeq, NumberAssumption DEF Forget

\* A run starts with nothing in memory.
LEMMA StartStep == ASSUME Inv, StartBackup \/ StartMigration PROVE Inv'
<1>1. PICK s \in {"backup", "migrate"} : Begin(s)
  BY DEF StartBackup, StartMigration
<1>2. \/ pc' = "wings" /\ wing' = None
      \/ pc' = "list" /\ wing' = Migrated
  BY DEF StartBackup, StartMigration
<1>3. Forget /\ script' = s /\ UNCHANGED <<palace, dest, disk>>
  BY <1>1 DEF Begin
<1>4. TypeInv'
  BY <1>2, <1>3, ForgetTypes, WingAssumption DEF Inv, TypeInv, States
<1> QED
  BY <1>2, <1>3, <1>4 DEF Inv, Paired

\* A run that dies forgets everything.
LEMMA DiesStep == ASSUME Inv, Dies PROVE Inv'
<1>1. Forget /\ pc' = "dead" /\ wing' = None /\ UNCHANGED <<palace, dest, disk, script>>
  BY DEF Dies
<1>2. TypeInv'
  BY <1>1, ForgetTypes DEF Inv, TypeInv, States
<1> QED
  BY <1>1, <1>2 DEF Inv, Paired

\* The wings are got, and the next one taken.
LEMMA WingStep == ASSUME Inv, GetWings \/ WingsRefused \/ NextWing PROVE Inv'
<1>1. CASE GetWings \/ WingsRefused
  BY <1>1, NumberAssumption DEF GetWings, WingsRefused, Inv, TypeInv, States, Paired
<1>2. CASE NextWing
  <2>1. <<>> \in Seq(Drawers)
    BY EmptySeq
  <2>2. PICK w \in todo : wing' = w /\ todo' = todo \ {w}
    BY <1>2 DEF NextWing
  <2>3. w \in Wings
    BY <2>2 DEF Inv, TypeInv
  <2>4. /\ ids' = <<>> /\ next' = 1 /\ pc' = "list"
        /\ UNCHANGED <<palace, dest, disk, script, attempt, records, warned>>
    BY <1>2 DEF NextWing
  <2> QED
    BY <2>1, <2>2, <2>3, <2>4 DEF Inv, TypeInv, States, Paired
<1> QED
  BY <1>1, <1>2

\* A page is listed.
LEMMA ListStep == ASSUME Inv, ListPage PROVE Inv'
<1> DEFINE page == Page(wing, Len(ids))
           got  == ids \o page
<1>1. /\ pc = "list" /\ ids' = got /\ attempt' = 1
      /\ pc' = IF page = <<>> \/ Len(got) >= Len(palace[wing]) THEN After(0, got) ELSE "list"
      /\ UNCHANGED <<palace, dest, disk, script, todo, wing, next, records, warned>>
  BY DEF ListPage
<1>2. wing \in Wings /\ next = 1
  BY <1>1 DEF Inv, TypeInv, States
<1>3. got \in Seq(Drawers)
  BY <1>2, PageOfDrawers, ConcatProperties DEF Inv, TypeInv
<1> HIDE DEF page, got
<1>4. \/ pc' = "list"
      \/ pc' \in {"fetch", "wing", "done"} /\ (pc' = "fetch" => 1 \in 1..Len(got))
  <2>1. /\ After(0, got) \in {"fetch", "wing", "done"}
        /\ After(0, got) = "fetch" => 0 + 1 \in 1..Len(got)
    BY <1>3, AfterDrawer
  <2> QED
    BY <1>1, <2>1
<1> QED
  BY <1>1, <1>2, <1>3, <1>4, NumberAssumption DEF Inv, TypeInv, States, Paired

\* A page that is refused ends the listing.
LEMMA PageRefusedStep == ASSUME Inv, PageRefused PROVE Inv'
<1>1. /\ pc = "list" /\ pc' = After(0, ids) /\ attempt' = 1
      /\ UNCHANGED <<palace, dest, disk, script, todo, wing, ids, next, records, warned>>
  BY DEF PageRefused
<1>2. wing \in Wings /\ next = 1 /\ ids \in Seq(Drawers)
  BY <1>1 DEF Inv, TypeInv, States
<1>3. /\ After(0, ids) \in {"fetch", "wing", "done"}
      /\ After(0, ids) = "fetch" => 0 + 1 \in 1..Len(ids)
  BY <1>2, AfterDrawer
<1> QED
  BY <1>1, <1>2, <1>3, NumberAssumption DEF Inv, TypeInv, States, Paired

\* The drawer at hand is of the wing that was listed, and so is the next.
LEMMA Advancing ==
  ASSUME TypeInv, Advance, pc \in {"fetch", "add"}
  PROVE  /\ ids[next] \in Drawers /\ wing \in Wings
         /\ pc' \in {"fetch", "wing", "done"} /\ (pc' = "fetch" => next' \in 1..Len(ids))
         /\ attempt' \in 1..MaxRetries
<1>1. next \in 1..Len(ids) /\ ids \in Seq(Drawers) /\ wing \in Wings /\ Len(ids) \in Nat
  BY LenProperties DEF TypeInv, States
<1>2. ids[next] \in Drawers /\ next \in Nat
  BY <1>1, ElementOfSeq
<1>3. next' = next + 1 /\ pc' = After(next, ids) /\ attempt' = 1
  BY DEF Advance
<1> QED
  BY <1>1, <1>2, <1>3, AfterDrawer, NumberAssumption

\* A drawer is recorded, and without content that is there only after an error.
LEMMA Recorded ==
  ASSUME FetchDrawer \/ FetchRefused
  PROVE  \E full \in BOOLEAN :
            /\ records' = Append(records, [id |-> ids[next], full |-> full])
            /\ \/ (full <=> ids[next] \in Present) /\ env' = env
               \/ env' = [env EXCEPT !.faults = @ + 1, !.refused = TRUE]
<1>1. CASE FetchDrawer
  <2> DEFINE there == ids[next] \in Present
  <2>1. records' = Append(records, [id |-> ids[next], full |-> there]) /\ env' = env
    BY <1>1 DEF FetchDrawer
  <2>2. there \in BOOLEAN /\ (there <=> ids[next] \in Present)
    OBVIOUS
  <2> HIDE DEF there
  <2> QED
    BY <2>1, <2>2, Zenon
<1>2. CASE FetchRefused
  <2>1. /\ records' = Append(records, [id |-> ids[next], full |-> FALSE])
        /\ env' = [env EXCEPT !.faults = @ + 1, !.refused = TRUE]
    BY <1>2 DEF FetchRefused, Refused
  <2>2. FALSE \in BOOLEAN
    OBVIOUS
  <2> QED
    BY <2>1, <2>2, Zenon
<1> QED
  BY <1>1, <1>2

\* A drawer is fetched, got, or added.
LEMMA DrawerStep ==
  ASSUME Inv, FetchDrawer \/ FetchRefused \/ GetDrawer \/ AddDrawer \/ AddRefused
  PROVE  Inv'
<1>1. CASE FetchDrawer \/ FetchRefused
  <2>1. /\ Advance /\ pc = "fetch"
        /\ UNCHANGED <<palace, dest, disk, script, todo, wing, ids, warned>>
    BY <1>1 DEF FetchDrawer, FetchRefused
  <2>0. PICK full \in BOOLEAN : records' = Append(records, [id |-> ids[next], full |-> full])
    BY <1>1, Recorded, Zenon
  <2>2. /\ ids[next] \in Drawers /\ wing \in Wings
        /\ pc' \in {"fetch", "wing", "done"} /\ (pc' = "fetch" => next' \in 1..Len(ids))
        /\ attempt' \in 1..MaxRetries
    BY <2>1, Advancing DEF Inv
  <2>3. [id |-> ids[next], full |-> full] \in Records
    BY <2>2 DEF Records
  <2>4. records' \in Seq(Records)
    BY <2>0, <2>3, AppendProperties DEF Inv, TypeInv
  <2> QED
    BY <2>1, <2>2, <2>4 DEF Inv, TypeInv, States, Paired
<1>2. CASE GetDrawer
  BY <1>2, NumberAssumption DEF GetDrawer, Inv, TypeInv, States, Paired
<1>3. CASE AddDrawer \/ AddRefused
  <2>1. /\ Advance /\ pc = "add" /\ dest' \in {dest, dest \cup {ids[next]}}
        /\ UNCHANGED <<palace, disk, script, todo, wing, ids, records, warned>>
    BY <1>3 DEF AddDrawer, AddRefused
  <2>2. /\ ids[next] \in Drawers /\ wing \in Wings
        /\ pc' \in {"fetch", "wing", "done"} /\ (pc' = "fetch" => next' \in 1..Len(ids))
        /\ attempt' \in 1..MaxRetries
    BY <2>1, Advancing DEF Inv
  <2> QED
    BY <2>1, <2>2 DEF Inv, TypeInv, States, Paired
<1> QED
  BY <1>1, <1>2, <1>3

\* What a lost answer may have added is a drawer.
LEMMA MaybeAddedTypes == ASSUME TypeInv, MaybeAdded PROVE dest' \subseteq Drawers
<1>1. pc = "add" => ids[next] \in Drawers
  BY ElementOfSeq DEF TypeInv, States
<1> QED
  BY <1>1 DEF MaybeAdded, TypeInv

\* A request fails: it is repeated, given up with a warning or an error, or it
\* ends the run.
LEMMA FaultStep ==
  ASSUME Inv, Retry \/ SkipWing \/ SkipDrawer \/ CountError \/ GiveUp \/ DrawerGone \/ Killed
  PROVE  Inv'
<1>1. CASE Retry
  <2>1. /\ attempt < MaxRetries /\ attempt' = attempt + 1 /\ MaybeAdded
        /\ UNCHANGED <<palace, disk, script, pc, todo, wing, ids, next, records, warned>>
    BY <1>1 DEF Retry
  <2>2. dest' \subseteq Drawers
    BY <2>1, MaybeAddedTypes DEF Inv
  <2> QED
    BY <2>1, <2>2, NumberAssumption DEF Inv, TypeInv, States, Paired
<1>2. CASE SkipWing
  BY <1>2, NumberAssumption DEF SkipWing, Inv, TypeInv, States, Paired
<1>3. CASE SkipDrawer
  <2>1. /\ Advance /\ pc = "fetch" /\ warned' = warned \cup {ids[next]}
        /\ UNCHANGED <<palace, dest, disk, script, todo, wing, ids, records>>
    BY <1>3 DEF SkipDrawer
  <2>2. /\ ids[next] \in Drawers /\ wing \in Wings
        /\ pc' \in {"fetch", "wing", "done"} /\ (pc' = "fetch" => next' \in 1..Len(ids))
        /\ attempt' \in 1..MaxRetries
    BY <2>1, Advancing DEF Inv
  <2> QED
    BY <2>1, <2>2 DEF Inv, TypeInv, States, Paired
<1>4. CASE CountError
  <2>1. /\ Advance /\ pc \in {"fetch", "add"} /\ MaybeAdded
        /\ UNCHANGED <<palace, disk, script, todo, wing, ids, records, warned>>
    BY <1>4 DEF CountError
  <2>2. /\ ids[next] \in Drawers /\ wing \in Wings
        /\ pc' \in {"fetch", "wing", "done"} /\ (pc' = "fetch" => next' \in 1..Len(ids))
        /\ attempt' \in 1..MaxRetries
    BY <2>1, Advancing DEF Inv
  <2>3. dest' \subseteq Drawers
    BY <2>1, MaybeAddedTypes DEF Inv
  <2> QED
    BY <2>1, <2>2, <2>3 DEF Inv, TypeInv, States, Paired
<1>5. CASE GiveUp \/ DrawerGone \/ Killed
  BY <1>5, DiesStep DEF GiveUp, DrawerGone, Killed
<1> QED
  BY <1>1, <1>2, <1>3, <1>4, <1>5

\* A file is truncated or filled; only the drawers file is written before the
\* manifest is opened.
LEMMA FileStep ==
  ASSUME Inv, OpenDrawers \/ CloseDrawers \/ OpenManifest \/ CloseManifest
  PROVE  Inv'
<1>1. PICK file \in {"drawers", "manifest"} :
         \/ pc = "wing" /\ pc' = "drawers" /\ disk' = [disk EXCEPT ![file] = None]
         \/ pc = "drawers" /\ pc' = "opening" /\ disk' = [disk EXCEPT !["drawers"] = records]
         \/ pc = "opening" /\ pc' = "manifest" /\ disk' = [disk EXCEPT !["manifest"] = None]
         \/ pc = "manifest" /\ pc' = "done" /\ disk' = [disk EXCEPT !["manifest"] = Len(records)]
  BY DEF OpenDrawers, CloseDrawers, OpenManifest, CloseManifest, Write
<1>2. UNCHANGED <<palace, dest, script, todo, wing, ids, next, attempt, records, warned>>
  BY DEF OpenDrawers, CloseDrawers, OpenManifest, CloseManifest, Write
<1>3. TypeInv'
  BY <1>1, <1>2 DEF Inv, TypeInv, States
<1>4. Paired'
  BY <1>1, <1>2 DEF Inv, Paired
<1> QED
  BY <1>1, <1>3, <1>4 DEF Inv

\* A user deletes a drawer of a wing, or adds one that is nowhere.
LEMMA UserStep ==
  ASSUME Inv, NEW w \in Wings,
         \/ \E i \in 1..Len(palace[w]) : Delete(w, i)
         \/ \E i \in 1..(Len(palace[w]) + 1), d \in Fresh : Add(w, i, d)
  PROVE  Inv'
<1>1. palace[w] \in Seq(Drawers) /\ IsInjective(palace[w])
  BY DEF Inv, TypeInv
<1>2. PICK drawers : /\ drawers \in Seq(Drawers) /\ IsInjective(drawers)
                     /\ palace' = [palace EXCEPT ![w] = drawers]
                     /\ UNCHANGED <<dest, disk, local>>
  <2>1. CASE \E i \in 1..Len(palace[w]) : Delete(w, i)
    <3>1. PICK i \in 1..Len(palace[w]) : Delete(w, i)
      BY <2>1
    <3>2. RemoveAt(palace[w], i) \in Seq(Drawers) /\ IsInjective(RemoveAt(palace[w], i))
      BY <1>1, Removing
    <3> QED
      BY <3>1, <3>2 DEF Delete, Change
  <2>2. CASE \E i \in 1..(Len(palace[w]) + 1), d \in Fresh : Add(w, i, d)
    <3>1. PICK i \in 1..(Len(palace[w]) + 1), d \in Fresh : Add(w, i, d)
      BY <2>2
    <3>2. d \in Drawers /\ d \notin ToSet(palace[w])
      BY <3>1 DEF Add, Present, Drawers
    <3>3. InsertAt(palace[w], i, d) \in Seq(Drawers) /\ IsInjective(InsertAt(palace[w], i, d))
      BY <1>1, <3>2, Inserting
    <3> QED
      BY <3>1, <3>3 DEF Add, Change
  <2> QED
    BY <2>1, <2>2
<1>3. palace' \in [Wings -> Seq(Drawers)] /\ \A v \in Wings : IsInjective(palace'[v])
  BY <1>2 DEF Inv, TypeInv
<1> QED
  BY <1>2, <1>3 DEF Inv, TypeInv, States, Paired, local

\* Every step keeps the invariant.
LEMMA NextInv == Inv /\ [Next]_vars => Inv'
<1> SUFFICES ASSUME Inv, [Next]_vars PROVE Inv'
  OBVIOUS
<1>1. CASE StartBackup \/ StartMigration
  BY <1>1, StartStep
<1>2. CASE Step
  BY <1>2, WingStep, ListStep, PageRefusedStep, DrawerStep, FaultStep, FileStep DEF Step
<1>3. CASE Killed
  BY <1>3, FaultStep
<1>4. CASE \E w \in Wings :
              \/ \E i \in 1..Len(palace[w]) : Delete(w, i)
              \/ \E i \in 1..(Len(palace[w]) + 1), d \in Fresh : Add(w, i, d)
  BY <1>4, UserStep
<1>5. CASE UNCHANGED vars
  BY <1>5 DEF vars, local, Inv, TypeInv, States, Paired
<1> QED
  BY <1>1, <1>2, <1>3, <1>4, <1>5 DEF Next

\* The invariant holds throughout.
LEMMA Invariant == Spec => []Inv
  BY InitInv, NextInv, PTL DEF Spec

----------------------------------------------------------------------------
(* The theorems. *)

\* The state stays of its types: however a wing shrinks and grows under the
\* listing, the run is at a drawer it listed and no drawer is listed twice by
\* the palace.
THEOREM Types == Spec => []TypeOK
  BY Invariant, InvTypeOK, PTL

\* A step that writes the manifest writes the number of the drawers that the
\* drawers file then holds.
LEMMA ManifestStep ==
  ASSUME Inv, Next, disk'.manifest # disk.manifest, disk'.manifest # None
  PROVE  disk'.drawers # None /\ disk'.manifest = Len(disk'.drawers)
<1>1. CloseManifest
  <2>1. disk' # disk
    OBVIOUS
  <2>2. OpenDrawers \/ CloseDrawers \/ OpenManifest \/ CloseManifest
    BY <2>1 DEF Next, StartBackup, StartMigration, Begin, Step, GetWings, NextWing, ListPage,
       FetchDrawer, GetDrawer, AddDrawer, WingsRefused, PageRefused, FetchRefused, AddRefused,
       Retry, SkipWing, SkipDrawer, CountError, GiveUp, DrawerGone, Killed, Dies, Delete, Add,
       Change
  <2>3. ~OpenDrawers /\ ~CloseDrawers
    BY DEF OpenDrawers, CloseDrawers, Write, Inv
  <2>4. ~OpenManifest
    BY DEF OpenManifest, Write, Inv
  <2> QED
    BY <2>2, <2>3, <2>4
<1>2. pc = "manifest" /\ disk' = [disk EXCEPT !["manifest"] = Len(records)]
  BY <1>1 DEF CloseManifest, Write
<1>3. disk.drawers = records /\ records \in Seq(Records)
  BY <1>2 DEF Inv, Paired, TypeInv
<1>4. records # None
  BY <1>3, DrawerAssumption DEF Records
<1> QED
  BY <1>2, <1>3, <1>4 DEF Inv

\* Whenever a manifest is written it counts what the drawers file then holds,
\* whatever the run skipped and wherever an earlier run died.
THEOREM PairsAgree == Spec => ManifestLast
<1>1. Inv /\ [Next]_vars =>
         [disk'.manifest # None =>
             disk'.drawers # None /\ disk'.manifest = Len(disk'.drawers)]_(disk.manifest)
  <2>1. CASE Next
    BY <2>1, ManifestStep
  <2>2. CASE UNCHANGED vars
    BY <2>2 DEF vars
  <2> QED
    BY <2>1, <2>2
<1> QED
  BY <1>1, Invariant, PTL DEF Spec, ManifestLast

----------------------------------------------------------------------------
(* What a run may miss. *)

\* Where which script may be, and what it has left when it writes.
Scripted ==
    /\ pc \in {"wings", "wing", "drawers", "opening", "manifest"} => script = "backup"
    /\ pc = "add" => script = "migrate"
    /\ script = "migrate" \/ pc \in {"drawers", "opening", "manifest", "done"} => todo = {}
    /\ pc = "done" /\ script = "backup" => disk.drawers = records

Counters ==
    [runs : Nat, faults : Nat, writes : Nat, refused : BOOLEAN, before : SUBSET Drawers,
     deleted : Nat, added : Nat]

Amounts ==
    /\ counts \in [ok : Nat, already : Nat, error : Nat]
    /\ env \in Counters

Copied == IF script = "backup" THEN {r.id : r \in ToSet(records)} ELSE dest

\* The drawers listed and not yet dealt with.
Pending == IF pc \in {"list", "fetch", "add"} THEN {ids[j] : j \in next..Len(ids)} ELSE {}

\* A drawer of a wing that the listing will not come to any more.
Passed(w, d) ==
    \E j \in 1..Len(palace[w]) :
       palace[w][j] = d /\ (pc = "list" /\ w = wing => j <= Len(ids))

\* A drawer that the run should have dealt with by now.
Missed(w, d) == w \in Due \ todo /\ Passed(w, d) /\ ~(w = wing /\ d \in Pending)

Lost == {d \in env.before : d \notin Copied \cup warned /\ \E w \in Wings : Missed(w, d)}

Underway ==
    /\ pc \notin {"idle", "dead", "wings"} /\ ~env.refused
    /\ script = "migrate" => counts.error = 0

\* Each drawer lost is paid by a deletion.
Paid == IsFiniteSet(Lost) /\ Cardinality(Lost) <= env.deleted

LossInv == Scripted /\ Amounts /\ (Underway => Paid)

\* A step that starts no run keeps the bound if it loses nothing.
LEMMA NothingLost ==
  ASSUME Amounts, Amounts', Paid, Lost' \subseteq Lost, env'.deleted = env.deleted
  PROVE  Paid'
  BY FS_Subset, FS_CardinalityType DEF Paid, Amounts, Counters

\* A deletion under the listing may lose one.
LEMMA OneLost ==
  ASSUME Amounts, Amounts', Paid, NEW d, Lost' \subseteq Lost \cup {d},
         env'.deleted = env.deleted + 1
  PROVE  Paid'
<1>1. IsFiniteSet(Lost) /\ Cardinality(Lost) \in Nat /\ Cardinality(Lost) <= env.deleted
  BY FS_CardinalityType DEF Paid
<1>2. /\ IsFiniteSet(Lost \cup {d})
      /\ Cardinality(Lost \cup {d}) <= Cardinality(Lost) + 1
  <2>1. /\ IsFiniteSet(Lost \cup {d})
        /\ Cardinality(Lost \cup {d}) = IF d \in Lost THEN Cardinality(Lost)
                                                     ELSE Cardinality(Lost) + 1
    BY <1>1, FS_AddElement
  <2> QED
    BY <1>1, <2>1
<1>3. IsFiniteSet(Lost') /\ Cardinality(Lost') <= Cardinality(Lost \cup {d})
  BY <1>2, FS_Subset
<1>4. Cardinality(Lost') \in Nat /\ Cardinality(Lost \cup {d}) \in Nat
  BY <1>2, <1>3, FS_CardinalityType
<1> QED
  BY <1>1, <1>2, <1>3, <1>4 DEF Paid, Amounts, Counters

\* What makes a step lose nothing.
LEMMA LosesNone ==
  ASSUME env'.before = env.before,
         \A d \in env.before : \A w \in Wings :
            Missed(w, d)' /\ d \notin (Copied \cup warned)'
               => Missed(w, d) /\ d \notin Copied \cup warned
  PROVE  Lost' \subseteq Lost
  BY DEF Lost

\* Nothing has been lost at first.
LEMMA InitLoss == Init => LossInv
  BY DEF Init, LossInv, Scripted, Amounts, Counters, Underway, Zero

\* A run starts, and has passed nothing.
LEMMA StartLoss == ASSUME Inv, LossInv, StartBackup \/ StartMigration PROVE LossInv'
<1>1. PICK s \in {"backup", "migrate"} : Begin(s)
  BY DEF StartBackup, StartMigration
<1>2. Scripted'
  BY <1>1 DEF StartBackup, StartMigration, Begin, Forget, Scripted
<1>3. Amounts'
  <2>1. TypeOK
    BY InvTypeOK
  <2>2. env' = [env EXCEPT !.runs = @ + 1, !.refused = FALSE, !.before = Present,
                          !.deleted = 0, !.added = 0]
    BY <1>1 DEF Begin
  <2>3. counts' = [ok |-> 0, already |-> 0, error |-> 0]
    BY <1>1 DEF Begin, Forget, Zero
  <2>4. Present \in SUBSET Drawers
    BY <2>1 DEF TypeOK
  <2>5. env' \in Counters
    <3> DEFINE E == Counters
               e0 == [env EXCEPT !.runs = @ + 1]
               e1 == [e0 EXCEPT !.refused = FALSE]
               e2 == [e1 EXCEPT !.before = Present]
               e3 == [e2 EXCEPT !.deleted = 0]
    <3> USE DEF Counters
    <3>1. env \in E
      BY DEF Amounts, LossInv
    <3>0. e0 \in E
      BY <3>1
    <3>2. e1 \in E
      <4> HIDE DEF e0
      <4> QED
        BY <3>0
    <3>3. e2 \in E
      <4> HIDE DEF e1
      <4> QED
        BY <2>4, <3>2
    <3>4. e3 \in E
      <4> HIDE DEF e2
      <4> QED
        BY <3>3
    <3>5. [e3 EXCEPT !.added = 0] \in E
      <4> HIDE DEF e3
      <4> QED
        BY <3>4
    <3>6. env' = [e3 EXCEPT !.added = 0]
      BY <2>2, <3>1
    <3> QED
      BY <3>5, <3>6
  <2>6. counts' \in [ok : Nat, already : Nat, error : Nat]
    BY <2>3
  <2> QED
    BY <2>5, <2>6 DEF Amounts, Counters
<1>4. CASE StartBackup
  BY <1>2, <1>3, <1>4 DEF StartBackup, LossInv, Underway
<1>5. CASE StartMigration
  <2>1. pc' = "list" /\ wing' = Migrated /\ ids' = <<>> /\ Len(ids') = 0 /\ script' = "migrate"
    BY <1>5 DEF StartMigration, Begin, Forget
  <2>2. \A d : ~Passed(Migrated, d)'
    BY <2>1 DEF Passed
  <2>3. Lost' = {}
    BY <2>1, <2>2 DEF Lost, Missed, Due
  <2> QED
    BY <1>2, <1>3, <2>3, FS_EmptySet DEF LossInv, Paid, Amounts, Counters
<1> QED
  BY <1>4, <1>5

\* The amounts stay numbers.
LEMMA AmountsKept ==
  ASSUME Amounts,
         \/ counts' = counts
         \/ counts' = [counts EXCEPT !.ok = @ + 1]
         \/ counts' = [counts EXCEPT !.already = @ + 1]
         \/ counts' = [counts EXCEPT !.error = @ + 1],
         \/ env' = env
         \/ env' = [env EXCEPT !.faults = @ + 1]
         \/ env' = [env EXCEPT !.faults = @ + 1, !.refused = TRUE]
  PROVE  Amounts' /\ env'.before = env.before /\ env'.deleted = env.deleted
<1>1. counts' \in [ok : Nat, already : Nat, error : Nat]
  BY DEF Amounts, Counters
<1>2. /\ env' \in Counters
      /\ env'.before = env.before /\ env'.deleted = env.deleted
  <2> DEFINE e1 == [env EXCEPT !.faults = @ + 1]
  <2>1. env \in Counters
    BY DEF Amounts
  <2>2. e1 \in Counters /\ e1.before = env.before /\ e1.deleted = env.deleted
    BY <2>1 DEF Counters
  <2>3. env' = env \/ env' = e1 \/ env' = [e1 EXCEPT !.refused = TRUE]
    BY <2>1 DEF Counters
  <2> HIDE DEF e1
  <2>4. env' = [e1 EXCEPT !.refused = TRUE] =>
           env' \in Counters /\ env'.before = env.before /\ env'.deleted = env.deleted
    BY <2>2 DEF Counters
  <2> QED
    BY <2>1, <2>2, <2>3, <2>4
<1> QED
  BY <1>1, <1>2 DEF Amounts, Counters

\* A step that only moves a run to a place where nothing is listed or pending.
LEMMA PlaceLoss ==
  ASSUME Inv, LossInv, GetWings \/ NextWing \/ OpenDrawers \/ CloseDrawers \/ OpenManifest
                          \/ CloseManifest
  PROVE  LossInv'
<1>1. /\ UNCHANGED <<palace, dest, script, records, warned, counts, env>>
      /\ pc \in {"wings", "wing", "drawers", "opening", "manifest"}
      /\ script = "backup"
  BY DEF GetWings, NextWing, OpenDrawers, CloseDrawers, OpenManifest, CloseManifest, Write,
         LossInv, Scripted
<1>2. Amounts' /\ env'.before = env.before /\ env'.deleted = env.deleted
  BY <1>1, AmountsKept DEF LossInv
<1>3. CASE GetWings
  <2>1. todo' = {w \in Wings : palace[w] # <<>>} \ Excluded /\ pc' = "wing"
    BY <1>3 DEF GetWings
  <2>2. Scripted'
    BY <1>1, <2>1 DEF Scripted
  <2>3. ASSUME NEW w \in Wings, w \in Due' \ todo', NEW d PROVE ~Passed(w, d)'
    <3>1. palace[w] = <<>>
      BY <1>1, <2>1, <2>3 DEF Due
    <3> QED
      BY <1>1, <3>1 DEF Passed
  <2>4. Lost' = {}
    BY <2>3 DEF Lost, Missed
  <2> QED
    BY <1>2, <2>2, <2>4, FS_EmptySet DEF LossInv, Paid, Amounts, Counters
<1>4. CASE NextWing
  <2>1. PICK v \in todo : wing' = v /\ todo' = todo \ {v}
    BY <1>4 DEF NextWing
  <2>2. pc = "wing" /\ pc' = "list" /\ ids' = <<>> /\ Len(ids') = 0
    BY <1>4 DEF NextWing
  <2>3. Scripted'
    BY <1>1, <2>2 DEF Scripted
  <2>4. ASSUME NEW d \in env.before, NEW w \in Wings, Missed(w, d)',
               d \notin (Copied \cup warned)'
        PROVE  Missed(w, d) /\ d \notin Copied \cup warned
    <3>1. w # v
      BY <2>1, <2>2, <2>4 DEF Missed, Passed
    <3>2. w \in Due \ todo
      BY <1>1, <2>1, <2>4, <3>1 DEF Missed, Due
    <3>3. Passed(w, d)
      BY <1>1, <2>2, <2>4 DEF Missed, Passed
    <3>4. d \notin Pending
      BY <2>2 DEF Pending
    <3> QED
      BY <1>1, <2>4, <3>2, <3>3, <3>4 DEF Missed, Copied
  <2>5. Lost' \subseteq Lost
    BY <1>2, <2>4, LosesNone
  <2>6. Underway' => Underway
    BY <1>1, <2>2 DEF Underway
  <2> QED
    BY <1>2, <2>3, <2>5, <2>6, NothingLost DEF LossInv
<1>5. CASE OpenDrawers \/ CloseDrawers \/ OpenManifest \/ CloseManifest
  <2>1. /\ pc \in {"wing", "drawers", "opening", "manifest"}
        /\ pc' \in {"drawers", "opening", "manifest", "done"} /\ UNCHANGED <<todo, wing, ids, next>>
    BY <1>5 DEF OpenDrawers, CloseDrawers, OpenManifest, CloseManifest, Write
  <2>2. pc' = "done" => pc = "manifest" /\ disk' = [disk EXCEPT !["manifest"] = Len(records)]
    BY <1>5 DEF OpenDrawers, CloseDrawers, OpenManifest, CloseManifest, Write
  <2>3. pc = "wing" => todo = {}
    BY <1>5 DEF OpenDrawers, CloseDrawers, OpenManifest, CloseManifest, Write
  <2>4. Scripted'
    BY <1>1, <2>1, <2>2, <2>3 DEF Scripted, LossInv, Inv, Paired
  <2>5. ASSUME NEW d \in env.before, NEW w \in Wings, Missed(w, d)',
               d \notin (Copied \cup warned)'
        PROVE  Missed(w, d) /\ d \notin Copied \cup warned
    <3>1. w \in Due \ todo /\ Passed(w, d)
      BY <1>1, <2>1, <2>5 DEF Missed, Due, Passed
    <3>2. d \notin Pending
      BY <2>1 DEF Pending
    <3> QED
      BY <1>1, <2>5, <3>1, <3>2 DEF Missed, Copied
  <2>6. Lost' \subseteq Lost
    BY <1>2, <2>5, LosesNone
  <2>7. Underway' => Underway
    BY <1>1, <2>1 DEF Underway
  <2> QED
    BY <1>2, <2>4, <2>6, <2>7, NothingLost DEF LossInv
<1> QED
  BY <1>3, <1>4, <1>5

\* What is listed by a page is what the wing has behind the offset.
LEMMA PageElements ==
  ASSUME TypeInv, wing \in Wings, NEW got, got = ids \o Page(wing, Len(ids))
  PROVE  /\ Len(got) \in Nat /\ Len(ids) \in Nat /\ Len(ids) <= Len(got)
         /\ \A j \in 1..Len(ids) : got[j] = ids[j]
         /\ \A j \in Len(ids) + 1..Len(got) :
               got[j] = palace[wing][j] /\ j <= Len(palace[wing])
         /\ Page(wing, Len(ids)) = <<>> => Len(palace[wing]) <= Len(ids)
<1> DEFINE s    == palace[wing]
           n    == Len(ids)
           last == Min({n + PageSize, Len(s)})
           page == SubSeq(s, n + 1, last)
<1>1. s \in Seq(Drawers) /\ Len(s) \in Nat /\ \A i \in 1..Len(s) : s[i] \in Drawers
  BY LenProperties, ElementOfSeq DEF TypeInv
<1>2. n \in Nat /\ PageSize \in Nat /\ PageSize > 0
  BY LenProperties, NumberAssumption DEF TypeInv
<1>3. last \in Int /\ last <= Len(s) /\ last <= n + PageSize /\ last \in {n + PageSize, Len(s)}
  <2>1. \E x \in {n + PageSize, Len(s)} : \A y \in {n + PageSize, Len(s)} : x <= y
    BY <1>1, <1>2
  <2>2. /\ last \in {n + PageSize, Len(s)}
        /\ \A y \in {n + PageSize, Len(s)} : last <= y
    BY <2>1 DEF Min
  <2> QED
    BY <1>1, <1>2, <2>2
<1> HIDE DEF last
<1>4. /\ page \in Seq(Drawers)
      /\ Len(page) = IF n + 1 <= last THEN last - (n + 1) + 1 ELSE 0
      /\ \A j \in 1..last - (n + 1) + 1 : page[j] = s[(n + 1) + j - 1]
  <2>1. n + 1 \in Int /\ \A i \in n + 1..last : s[i] \in Drawers
    BY <1>1, <1>2, <1>3
  <2> QED
    BY <1>3, <2>1, SubSeqProperties
<1>5. Page(wing, Len(ids)) = page
  BY DEF Page, last
<1> HIDE DEF page
<1>6. /\ Len(got) = n + Len(page)
      /\ \A j \in 1..n + Len(page) : got[j] = IF j <= n THEN ids[j] ELSE page[j - n]
  BY <1>4, <1>5, ConcatProperties DEF TypeInv
<1>7. Len(page) \in Nat
  BY <1>4, LenProperties
<1>8. ASSUME NEW j \in n + 1..Len(got) PROVE got[j] = s[j] /\ j <= Len(s)
  <2>1. j \in 1..n + Len(page) /\ ~(j <= n) /\ j - n \in 1..Len(page)
    BY <1>2, <1>6, <1>7
  <2>2. Len(page) = last - n
    BY <1>2, <1>3, <1>4, <1>7, <2>1
  <2>3. j - n \in 1..last - (n + 1) + 1 /\ (n + 1) + (j - n) - 1 = j
    BY <1>2, <1>3, <2>1, <2>2
  <2>4. page[j - n] = s[(n + 1) + (j - n) - 1]
    BY <1>4, <2>3
  <2>5. j <= Len(s)
    BY <1>1, <1>2, <1>3, <2>1, <2>2
  <2> QED
    BY <1>6, <2>1, <2>3, <2>4, <2>5
<1>9. page = <<>> => Len(s) <= n
  <2>1. SUFFICES ASSUME Len(page) = 0 PROVE Len(s) <= n
    OBVIOUS
  <2>2. ~(n + 1 <= last)
    BY <1>2, <1>3, <1>4, <2>1
  <2> QED
    BY <1>1, <1>2, <1>3, <2>2
<1>10. Len(got) \in Nat /\ n <= Len(got) /\ \A j \in 1..n : got[j] = ids[j]
  BY <1>2, <1>6, <1>7
<1> QED
  BY <1>2, <1>5, <1>8, <1>9, <1>10

\* A page puts what it passes into the list of drawers to deal with.
LEMMA ListLoss == ASSUME Inv, LossInv, Underway, ListPage PROVE LossInv'
<1> DEFINE page == Page(wing, Len(ids))
           got  == ids \o page
<1>1. /\ pc = "list" /\ ids' = got
      /\ pc' = IF page = <<>> \/ Len(got) >= Len(palace[wing]) THEN After(0, got) ELSE "list"
      /\ UNCHANGED <<palace, dest, disk, script, todo, wing, next, records, warned, counts, env>>
  BY DEF ListPage
<1>2. wing \in Wings /\ next = 1 /\ palace[wing] \in Seq(Drawers)
  BY <1>1 DEF Inv, TypeInv, States
<1>3. /\ Len(got) \in Nat /\ Len(ids) \in Nat /\ Len(ids) <= Len(got)
      /\ \A j \in 1..Len(ids) : got[j] = ids[j]
      /\ \A j \in Len(ids) + 1..Len(got) : got[j] = palace[wing][j]
      /\ page = <<>> => Len(palace[wing]) <= Len(ids)
  BY <1>2, PageElements DEF Inv
<1>4. Len(palace[wing]) \in Nat
  BY <1>2, LenProperties
<1> HIDE DEF page, got
<1>5. \/ pc' = "list"
      \/ pc' = "fetch" /\ Len(palace[wing]) <= Len(got)
      \/ /\ pc' = IF script = "backup" THEN "wing" ELSE "done"
         /\ Len(got) = 0 /\ Len(palace[wing]) = 0
  <2>1. CASE ~(page = <<>> \/ Len(got) >= Len(palace[wing]))
    BY <1>1, <2>1
  <2>2. CASE page = <<>> \/ Len(got) >= Len(palace[wing])
    <3>1. pc' = After(0, got)
      BY <1>1, <2>2
    <3>2. Len(palace[wing]) <= Len(got)
      BY <1>3, <1>4, <2>2
    <3>3. CASE 0 < Len(got)
      <4>1. After(0, got) = "fetch"
        BY <3>3 DEF After
      <4> QED
        BY <3>1, <3>2, <4>1
    <3>4. CASE Len(got) = 0
      <4>1. Len(palace[wing]) = 0
        BY <1>4, <3>2, <3>4
      <4>2. After(0, got) = IF script = "backup" THEN "wing" ELSE "done"
        BY <3>4 DEF After
      <4> QED
        BY <3>1, <3>4, <4>1, <4>2
    <3> QED
      BY <1>3, <3>3, <3>4
  <2> QED
    BY <2>1, <2>2
<1>6. Pending = {ids[j] : j \in 1..Len(ids)}
  BY <1>1, <1>2 DEF Pending
<1>7. Amounts' /\ env'.before = env.before /\ env'.deleted = env.deleted
  BY <1>1, AmountsKept DEF LossInv
<1>8. Scripted'
  BY <1>1, <1>5 DEF Scripted, LossInv, Inv, TypeInv
<1>9. ASSUME NEW d \in env.before, NEW w \in Wings, Missed(w, d)',
             d \notin (Copied \cup warned)'
      PROVE  Missed(w, d) /\ d \notin Copied \cup warned
  <2>1. w \in Due \ todo /\ d \notin Copied \cup warned
    BY <1>1, <1>9 DEF Missed, Due, Copied
  <2>2. CASE w # wing
    BY <1>1, <1>9, <2>1, <2>2 DEF Missed, Passed
  <2>3. CASE w = wing
    <3>1. PICK j \in 1..Len(palace[w]) : palace[w][j] = d /\ (pc' = "list" => j <= Len(got))
      BY <1>1, <1>9, <2>3 DEF Missed, Passed
    <3>2. pc' \in {"list", "fetch"} /\ j <= Len(got)
      BY <1>3, <1>4, <1>5, <2>3, <3>1
    <3>3. Pending' = {got[k] : k \in 1..Len(got)}
      BY <1>1, <1>2, <3>2 DEF Pending
    <3>4. d \notin Pending'
      BY <1>1, <1>9, <2>3 DEF Missed
    <3>5. j <= Len(ids)
      <4>1. SUFFICES ASSUME j > Len(ids) PROVE FALSE
        BY <1>3, <1>4
      <4>2. j \in Len(ids) + 1..Len(got) /\ j \in 1..Len(got)
        BY <1>3, <1>4, <3>2, <4>1
      <4>3. got[j] = d
        BY <1>3, <2>3, <3>1, <4>2
      <4> QED
        BY <3>3, <3>4, <4>2, <4>3
    <3>6. Pending \subseteq Pending'
      <4>1. ASSUME NEW k \in 1..Len(ids) PROVE ids[k] \in Pending'
        <5>1. k \in 1..Len(got) /\ got[k] = ids[k]
          BY <1>3
        <5> QED
          BY <3>3, <5>1
      <4> QED
        BY <1>6, <4>1
    <3> QED
      BY <2>1, <3>1, <3>4, <3>5, <3>6 DEF Missed, Passed
  <2> QED
    BY <2>2, <2>3
<1>10. Lost' \subseteq Lost
  BY <1>7, <1>9, LosesNone
<1> QED
  BY <1>7, <1>8, <1>10, NothingLost DEF LossInv

\* A request that leaves the run where it is, or takes a migration from getting
\* a drawer to adding it, loses nothing.
LEMMA WaitLoss == ASSUME Inv, LossInv, Underway, Retry \/ GetDrawer PROVE LossInv'
<1>1. /\ UNCHANGED <<palace, script, todo, wing, ids, next, records, warned, counts>>
      /\ disk' = disk
      /\ pc' = pc \/ (pc = "fetch" /\ pc' = "add" /\ script = "migrate")
      /\ env' = env \/ env' = [env EXCEPT !.faults = @ + 1]
      /\ dest' \in {dest, dest \cup {ids[next]}}
  BY DEF Retry, Fault, MaybeAdded, GetDrawer
<1>2. Amounts' /\ env'.before = env.before /\ env'.deleted = env.deleted
  BY <1>1, AmountsKept DEF LossInv
<1>3. Scripted'
  BY <1>1 DEF Scripted, LossInv
<1>4. Pending' = Pending
  BY <1>1 DEF Pending
<1>5. Copied \subseteq Copied' /\ warned' = warned
  BY <1>1 DEF Copied
<1>6. ASSUME NEW d \in env.before, NEW w \in Wings, Missed(w, d)',
             d \notin (Copied \cup warned)'
      PROVE  Missed(w, d) /\ d \notin Copied \cup warned
  <2>1. w \in Due \ todo /\ Passed(w, d) /\ ~(w = wing /\ d \in Pending)
    BY <1>1, <1>4, <1>6 DEF Missed, Due, Passed
  <2> QED
    BY <1>5, <1>6, <2>1 DEF Missed
<1>7. Lost' \subseteq Lost
  BY <1>2, <1>6, LosesNone
<1> QED
  BY <1>2, <1>3, <1>7, NothingLost DEF LossInv

\* The drawer at hand leaves the list once it is copied or warned of.
LEMMA DrawerLoss ==
  ASSUME Inv, LossInv, Underway, FetchDrawer \/ AddDrawer \/ SkipDrawer
  PROVE  LossInv'
<1>1. /\ Advance /\ pc \in {"fetch", "add"} /\ UNCHANGED <<palace, disk, script, todo, wing, ids>>
      /\ env' = env \/ env' = [env EXCEPT !.faults = @ + 1]
      /\ \/ counts' = counts
         \/ counts' = [counts EXCEPT !.ok = @ + 1]
         \/ counts' = [counts EXCEPT !.already = @ + 1]
  BY DEF FetchDrawer, AddDrawer, SkipDrawer, LastAttempt, Fault
<1>2. Amounts' /\ env'.before = env.before /\ env'.deleted = env.deleted
  BY <1>1, AmountsKept DEF LossInv
<1>3. /\ next \in 1..Len(ids) /\ Len(ids) \in Nat /\ next' = next + 1
      /\ pc' = IF next < Len(ids) THEN "fetch" ELSE IF script = "backup" THEN "wing" ELSE "done"
  BY <1>1, LenProperties DEF Inv, TypeInv, States, Advance, After
<1>4. Scripted'
  BY <1>1, <1>3 DEF Scripted, LossInv, Inv, TypeInv
<1>5. Pending \subseteq Pending' \cup {ids[next]}
  <2>1. Pending = {ids[j] : j \in next..Len(ids)}
    BY <1>1 DEF Pending
  <2>2. CASE next < Len(ids)
    <3>1. Pending' = {ids[j] : j \in next + 1..Len(ids)}
      BY <1>1, <1>3, <2>2 DEF Pending
    <3>2. \A j \in next..Len(ids) : j = next \/ j \in next + 1..Len(ids)
      BY <1>3
    <3> QED
      BY <2>1, <3>1, <3>2
  <2>3. CASE ~(next < Len(ids))
    <3>1. \A j \in next..Len(ids) : j = next
      BY <1>3, <2>3
    <3> QED
      BY <2>1, <3>1
  <2> QED
    BY <2>2, <2>3
<1>6. Copied \cup warned \subseteq (Copied \cup warned)' /\ ids[next] \in (Copied \cup warned)'
  <2>1. CASE FetchDrawer
    <3> DEFINE rec == [id |-> ids[next], full |-> ids[next] \in Present]
    <3>1. records' = Append(records, rec) /\ script = "backup" /\ warned' = warned
      BY <2>1 DEF FetchDrawer
    <3>2. rec \in Records
      <4>1. ids[next] \in Drawers
        BY <1>3, ElementOfSeq DEF Inv, TypeInv
      <4> QED
        BY <4>1 DEF Records
    <3>3. rec.id = ids[next]
      OBVIOUS
    <3> HIDE DEF rec
    <3>4. /\ Len(records) \in Nat /\ DOMAIN records = 1..Len(records)
          /\ DOMAIN records' = 1..Len(records) + 1
          /\ \A j \in 1..Len(records) : records'[j] = records[j]
          /\ records'[Len(records) + 1] = rec
      <4>1. records \in Seq(Records)
        BY DEF Inv, TypeInv
      <4>2. /\ Append(records, rec) \in Seq(Records)
            /\ Len(Append(records, rec)) = Len(records) + 1
            /\ \A j \in 1..Len(records) : Append(records, rec)[j] = records[j]
            /\ Append(records, rec)[Len(records) + 1] = rec
        BY <3>2, <4>1, AppendProperties
      <4> QED
        BY <3>1, <4>1, <4>2, LenProperties
    <3>5. ToSet(records) \cup {rec} \subseteq ToSet(records')
      <4>1. \A j \in 1..Len(records) : j \in DOMAIN records' /\ records[j] = records'[j]
        BY <3>4
      <4>2. Len(records) + 1 \in DOMAIN records'
        BY <3>4
      <4> QED
        BY <3>4, <4>1, <4>2 DEF ToSet
    <3> QED
      BY <1>1, <3>1, <3>3, <3>5 DEF Copied
  <2>2. CASE AddDrawer
    <3>1. pc = "add" /\ dest' = dest \cup {ids[next]} /\ warned' = warned
      BY <2>2 DEF AddDrawer
    <3>2. script = "migrate" /\ script' = "migrate"
      BY <1>1, <3>1 DEF LossInv, Scripted
    <3> QED
      BY <3>1, <3>2 DEF Copied
  <2>3. CASE SkipDrawer
    <3>1. warned' = warned \cup {ids[next]} /\ UNCHANGED <<script, dest, records>>
      BY <2>3 DEF SkipDrawer
    <3> QED
      BY <3>1 DEF Copied
  <2> QED
    BY <2>1, <2>2, <2>3
<1>7. Due' \subseteq Due
  <2>1. warned \subseteq warned'
    BY DEF FetchDrawer, AddDrawer, SkipDrawer
  <2> QED
    BY <1>1, <2>1 DEF Due
<1>8. ASSUME NEW d \in env.before, NEW w \in Wings, Missed(w, d)',
             d \notin (Copied \cup warned)'
      PROVE  Missed(w, d) /\ d \notin Copied \cup warned
  <2>1. w \in Due \ todo
    BY <1>1, <1>7, <1>8 DEF Missed
  <2>2. Passed(w, d)
    <3>1. PICK j \in 1..Len(palace[w]) : palace[w][j] = d
      BY <1>1, <1>8 DEF Missed, Passed
    <3> QED
      BY <1>1, <3>1 DEF Passed
  <2>3. ~(w = wing /\ d \in Pending)
    BY <1>1, <1>5, <1>6, <1>8 DEF Missed
  <2> QED
    BY <1>6, <1>8, <2>1, <2>2, <2>3 DEF Missed
<1>9. Lost' \subseteq Lost
  BY <1>2, <1>8, LosesNone
<1> QED
  BY <1>2, <1>4, <1>9, NothingLost DEF LossInv

\* A wing that is skipped is warned of.
LEMMA SkipLoss == ASSUME Inv, LossInv, Underway, SkipWing PROVE LossInv'
<1>1. /\ pc = "list" /\ pc' = "wing" /\ script = "backup" /\ warned' = warned \cup {wing}
      /\ UNCHANGED <<palace, dest, disk, script, todo, wing, ids, next, records, counts>>
      /\ env' = [env EXCEPT !.faults = @ + 1]
  BY DEF SkipWing, LastAttempt, Fault
<1>2. Amounts' /\ env'.before = env.before /\ env'.deleted = env.deleted
  BY <1>1, AmountsKept DEF LossInv
<1>3. Scripted'
  BY <1>1 DEF Scripted, LossInv
<1>4. ASSUME NEW d \in env.before, NEW w \in Wings, Missed(w, d)',
             d \notin (Copied \cup warned)'
      PROVE  Missed(w, d) /\ d \notin Copied \cup warned
  <2>1. w \in Due \ todo /\ w # wing
    BY <1>1, <1>4 DEF Missed, Due
  <2>2. Passed(w, d)
    BY <1>1, <1>4, <2>1 DEF Missed, Passed
  <2> QED
    BY <1>1, <1>4, <2>1, <2>2 DEF Missed, Copied
<1>5. Lost' \subseteq Lost
  BY <1>2, <1>4, LosesNone
<1> QED
  BY <1>2, <1>3, <1>5, NothingLost DEF LossInv

\* A migration with an error does not succeed any more, nor does a run that dies.
LEMMA FailureLoss ==
  ASSUME Inv, LossInv, CountError \/ GiveUp \/ DrawerGone \/ Killed
  PROVE  LossInv' /\ ~Underway'
<1>1. CASE CountError
  <2>1. /\ Advance /\ pc \in {"fetch", "add"} /\ script = "migrate"
        /\ UNCHANGED <<palace, disk, script, todo, wing, ids, records, warned>>
        /\ counts' = [counts EXCEPT !.error = @ + 1]
        /\ env' = [env EXCEPT !.faults = @ + 1]
    BY <1>1 DEF CountError, LastAttempt, Fault
  <2>2. Amounts'
    BY <2>1, AmountsKept DEF LossInv
  <2>3. pc' \in {"fetch", "done"}
    BY <2>1 DEF Advance, After
  <2>4. Scripted'
    BY <2>1, <2>3 DEF Scripted, LossInv
  <2>5. counts'.error # 0
    BY <2>1 DEF LossInv, Amounts, Counters
  <2> QED
    BY <2>1, <2>2, <2>4, <2>5 DEF LossInv, Underway
<1>2. CASE GiveUp \/ DrawerGone \/ Killed
  <2>1. Dies /\ (env' = env \/ env' = [env EXCEPT !.faults = @ + 1])
    BY <1>2 DEF GiveUp, DrawerGone, Killed, LastAttempt, Fault
  <2>2. pc' = "dead" /\ todo' = {} /\ counts' = [ok |-> 0, already |-> 0, error |-> 0]
    BY <2>1 DEF Dies, Forget, Zero
  <2>3. env' \in Counters
    BY <2>1 DEF LossInv, Amounts, Counters
  <2>4. Amounts'
    BY <2>2, <2>3 DEF Amounts, Counters
  <2>5. Scripted'
    BY <2>2 DEF Scripted
  <2> QED
    BY <2>2, <2>4, <2>5 DEF LossInv, Underway
<1> QED
  BY <1>1, <1>2

\* What a user's change leaves alone, and counts.
LEMMA ChangeLoss ==
  ASSUME LossInv, NEW w \in Wings, NEW drawers, NEW field \in {"deleted", "added"},
         Change(w, drawers, field)
  PROVE  /\ Amounts' /\ Scripted' /\ env'.before = env.before
         /\ Pending' = Pending /\ Copied' = Copied /\ Due' = Due /\ Underway' = Underway
         /\ UNCHANGED local
         /\ env'.deleted = IF field = "deleted" /\ Listing(w) THEN env.deleted + 1
                                                              ELSE env.deleted
<1>1. /\ UNCHANGED <<dest, disk, local>>
      /\ env' = [env EXCEPT !.writes = @ + 1, ![field] = IF Listing(w) THEN @ + 1 ELSE @]
  BY DEF Change
<1>2. env \in Counters
  BY DEF LossInv, Amounts, Counters
<1>3. /\ env' \in Counters
      /\ env'.before = env.before /\ env'.refused = env.refused
      /\ env'.deleted = IF field = "deleted" /\ Listing(w) THEN env.deleted + 1
                                                           ELSE env.deleted
  <2> DEFINE E  == Counters
             e1 == [env EXCEPT !.writes = @ + 1]
             k  == IF Listing(w) THEN env[field] + 1 ELSE env[field]
  <2> USE DEF Counters
  <2>1. /\ e1 \in E /\ e1.before = env.before /\ e1.deleted = env.deleted /\ e1.added = env.added
        /\ e1.refused = env.refused
    BY <1>2
  <2>2. k \in Nat
    BY <1>2
  <2>3. env' = [e1 EXCEPT ![field] = k]
    BY <1>1, <1>2
  <2> HIDE DEF e1, k
  <2>4. CASE field = "deleted"
    <3>1. env' = [e1 EXCEPT !.deleted = k]
      BY <2>3, <2>4
    <3>2. k = IF Listing(w) THEN env.deleted + 1 ELSE env.deleted
      BY <2>4 DEF k
    <3> QED
      BY <2>1, <2>2, <2>4, <3>1, <3>2
  <2>5. CASE field = "added"
    <3>1. env' = [e1 EXCEPT !.added = k]
      BY <2>3, <2>5
    <3> QED
      BY <2>1, <2>2, <2>5, <3>1
  <2> QED
    BY <2>4, <2>5
<1>4. Amounts' /\ Scripted'
  BY <1>1, <1>3 DEF LossInv, Amounts, Counters, Scripted, local
<1>5. Pending' = Pending /\ Copied' = Copied /\ Due' = Due /\ Underway' = Underway
  BY <1>1, <1>3 DEF Pending, Copied, Due, Underway, local
<1> QED
  BY <1>1, <1>3, <1>4, <1>5

\* A deletion under the listing moves one drawer past the offset.
LEMMA DeleteLoss ==
  ASSUME Inv, LossInv, NEW w \in Wings, NEW i \in 1..Len(palace[w]), Delete(w, i)
  PROVE  LossInv'
<1> DEFINE s == palace[w]
           r == RemoveAt(s, i)
           x == s[Len(ids) + 1]
<1>1. s \in Seq(Drawers) /\ IsInjective(s) /\ Len(s) \in Nat /\ Len(ids) \in Nat
  BY LenProperties DEF Inv, TypeInv
<1>2. /\ Len(r) = Len(s) - 1
      /\ \A j \in 1..Len(s) - 1 : r[j] = IF j <= i - 1 THEN s[j] ELSE s[j + 1]
  BY <1>1, Removing
<1>3. Change(w, r, "deleted")
  BY DEF Delete
<1>4. palace' = [palace EXCEPT ![w] = r] /\ palace \in [Wings -> Seq(Drawers)]
  BY <1>3 DEF Change, Inv, TypeInv
<1> HIDE DEF r
<1>5. /\ Amounts' /\ Scripted' /\ env'.before = env.before
      /\ Pending' = Pending /\ Copied' = Copied /\ Due' = Due /\ Underway' = Underway
      /\ UNCHANGED local
      /\ env'.deleted = IF Listing(w) THEN env.deleted + 1 ELSE env.deleted
  BY <1>3, ChangeLoss
<1>6. palace'[w] = r /\ \A v \in Wings : v # w => palace'[v] = palace[v]
  BY <1>4
<1>7. /\ UNCHANGED <<pc, todo, wing, ids, warned>>
  BY <1>5 DEF local
<1>8. ASSUME NEW d, NEW v \in Wings, Passed(v, d)', ~(Listing(w) /\ d = x)
      PROVE  Passed(v, d)
  <2>1. CASE v # w
    BY <1>6, <1>7, <1>8, <2>1 DEF Passed
  <2>2. CASE v = w
    <3>1. PICK j \in 1..Len(r) : r[j] = d /\ (Listing(w) => j <= Len(ids))
      BY <1>6, <1>7, <1>8, <2>2 DEF Passed, Listing
    <3>2. PICK k \in 1..Len(s) : s[k] = d /\ (Listing(w) => k <= Len(ids) + 1)
      <4>1. CASE j <= i - 1
        <5>1. j \in 1..Len(s) /\ s[j] = d /\ (Listing(w) => j <= Len(ids) + 1)
          BY <1>1, <1>2, <3>1, <4>1
        <5> QED
          BY <5>1
      <4>2. CASE ~(j <= i - 1)
        <5>1. j + 1 \in 1..Len(s) /\ s[j + 1] = d /\ (Listing(w) => j + 1 <= Len(ids) + 1)
          BY <1>1, <1>2, <3>1, <4>2
        <5> QED
          BY <5>1
      <4> QED
        BY <4>1, <4>2
    <3>3. Listing(w) => k <= Len(ids)
      <4>1. Listing(w) => k # Len(ids) + 1
        BY <1>8, <3>2
      <4> QED
        BY <1>1, <3>2, <4>1
    <3> QED
      BY <2>2, <3>2, <3>3 DEF Passed, Listing
  <2> QED
    BY <2>1, <2>2
<1>9. ASSUME NEW d \in env.before, NEW v \in Wings, Missed(v, d)',
             d \notin (Copied \cup warned)', ~(Listing(w) /\ d = x)
      PROVE  Missed(v, d) /\ d \notin Copied \cup warned
  BY <1>5, <1>7, <1>8, <1>9 DEF Missed
<1>10. CASE ~Underway
  BY <1>5, <1>10 DEF LossInv
<1>11. CASE Underway /\ Listing(w)
  <2>1. Lost' \subseteq Lost \cup {x}
    BY <1>5, <1>9 DEF Lost
  <2> QED
    BY <1>5, <1>11, <2>1, OneLost DEF LossInv
<1>12. CASE Underway /\ ~Listing(w)
  <2>1. Lost' \subseteq Lost
    BY <1>5, <1>9, <1>12, LosesNone
  <2> QED
    BY <1>5, <1>12, <2>1, NothingLost DEF LossInv
<1> QED
  BY <1>10, <1>11, <1>12

\* A drawer added pushes others back behind the offset, and was not there before.
LEMMA AddLoss ==
  ASSUME Inv, LossInv, NEW w \in Wings, NEW i \in 1..Len(palace[w]) + 1, NEW e \in Fresh,
         Add(w, i, e)
  PROVE  LossInv'
<1> DEFINE s == palace[w]
           r == InsertAt(s, i, e)
<1>1. s \in Seq(Drawers) /\ IsInjective(s) /\ Len(s) \in Nat /\ Len(ids) \in Nat
  BY LenProperties DEF Inv, TypeInv
<1>2. e \in Drawers /\ e \notin ToSet(s) /\ e \notin env.before
  BY DEF Add, Present, Drawers
<1>3. /\ Len(r) = Len(s) + 1
      /\ \A j \in 1..Len(s) + 1 : r[j] = IF j < i THEN s[j] ELSE IF j = i THEN e ELSE s[j - 1]
  <2>1. i \in 1..Len(s) + 1
    OBVIOUS
  <2>2. s \in Seq(Drawers) /\ IsInjective(s) /\ e \in Drawers /\ e \notin ToSet(s)
    BY <1>1, <1>2
  <2> HIDE DEF s
  <2>3. /\ InsertAt(s, i, e) \in Seq(Drawers) /\ IsInjective(InsertAt(s, i, e))
        /\ Len(InsertAt(s, i, e)) = Len(s) + 1
        /\ \A j \in 1..Len(s) + 1 : InsertAt(s, i, e)[j] =
              IF j < i THEN s[j] ELSE IF j = i THEN e ELSE s[j - 1]
    BY <2>1, <2>2, Inserting
  <2> QED
    BY <2>3
<1>4. Change(w, r, "added")
  BY DEF Add
<1>5. palace' = [palace EXCEPT ![w] = r] /\ palace \in [Wings -> Seq(Drawers)]
  BY <1>4 DEF Change, Inv, TypeInv
<1> HIDE DEF r
<1>6. /\ Amounts' /\ Scripted' /\ env'.before = env.before
      /\ Pending' = Pending /\ Copied' = Copied /\ Due' = Due /\ Underway' = Underway
      /\ UNCHANGED local
      /\ env'.deleted = env.deleted
  BY <1>4, ChangeLoss
<1>7. palace'[w] = r /\ \A v \in Wings : v # w => palace'[v] = palace[v]
  BY <1>5
<1>8. /\ UNCHANGED <<pc, todo, wing, ids, warned>>
  BY <1>6 DEF local
<1>9. ASSUME NEW d \in env.before, NEW v \in Wings, Passed(v, d)' PROVE Passed(v, d)
  <2>1. CASE v # w
    BY <1>7, <1>8, <1>9, <2>1 DEF Passed
  <2>2. CASE v = w
    <3>1. PICK j \in 1..Len(r) : r[j] = d /\ (Listing(w) => j <= Len(ids))
      BY <1>7, <1>8, <1>9, <2>2 DEF Passed, Listing
    <3>2. j # i
      BY <1>2, <1>3, <3>1
    <3>3. CASE j < i
      <4>1. j \in 1..Len(s) /\ s[j] = d
        BY <1>1, <1>3, <3>1, <3>3
      <4> QED
        BY <2>2, <3>1, <4>1 DEF Passed, Listing
    <3>4. CASE j > i
      <4>1. j - 1 \in 1..Len(s) /\ s[j - 1] = d /\ (Listing(w) => j - 1 <= Len(ids))
        BY <1>1, <1>3, <3>1, <3>4
      <4> QED
        BY <2>2, <4>1 DEF Passed, Listing
    <3> QED
      BY <1>1, <1>3, <3>1, <3>2, <3>3, <3>4
  <2> QED
    BY <2>1, <2>2
<1>10. ASSUME NEW d \in env.before, NEW v \in Wings, Missed(v, d)',
              d \notin (Copied \cup warned)'
       PROVE  Missed(v, d) /\ d \notin Copied \cup warned
  BY <1>6, <1>8, <1>9, <1>10 DEF Missed
<1>11. Lost' \subseteq Lost
  BY <1>6, <1>10, LosesNone
<1> QED
  BY <1>6, <1>11, NothingLost DEF LossInv

\* A run that is not under way, or has failed, is still so after its own step.
LEMMA FailedLoss ==
  ASSUME Inv, LossInv, ~Underway,
         ListPage \/ FetchDrawer \/ GetDrawer \/ AddDrawer \/ Retry \/ SkipWing \/ SkipDrawer
  PROVE  LossInv'
<1>1. /\ pc \in {"wings", "list", "fetch", "add"} /\ todo' = todo /\ script' = script /\ disk' = disk
      /\ env' = env \/ env' = [env EXCEPT !.faults = @ + 1]
      /\ \/ counts' = counts
         \/ counts' = [counts EXCEPT !.ok = @ + 1]
         \/ counts' = [counts EXCEPT !.already = @ + 1]
  BY DEF ListPage, FetchDrawer, GetDrawer, AddDrawer, Retry, SkipWing, SkipDrawer, LastAttempt, Fault
<1>2. Amounts'
  BY <1>1, AmountsKept DEF LossInv
<1>3. counts'.error = counts.error
  BY <1>1 DEF LossInv, Amounts, Counters
<1>4. CASE pc = "wings"
  <2>1. Retry
    BY <1>4 DEF ListPage, FetchDrawer, GetDrawer, AddDrawer, SkipWing, SkipDrawer
  <2>2. pc' = pc
    BY <2>1 DEF Retry
  <2> QED
    BY <1>1, <1>2, <1>4, <2>2 DEF LossInv, Scripted, Underway
<1>5. CASE pc # "wings"
  <2>1. env.refused \/ (script = "migrate" /\ counts.error # 0)
    BY <1>1, <1>5 DEF Underway
  <2>2. env'.refused = env.refused
    BY <1>1 DEF LossInv, Amounts, Counters
  <2>3. /\ script = "migrate" => pc' \in {"list", "fetch", "add", "done"}
        /\ script = "backup" => pc' \in {"list", "fetch", "wing"}
    BY <1>1, <1>5
    DEF ListPage, FetchDrawer, GetDrawer, AddDrawer, Retry, SkipWing, SkipDrawer, Advance, After,
        LossInv, Scripted
  <2>4. script \in {"backup", "migrate"}
    BY DEF Inv, TypeInv
  <2>5. Scripted'
    BY <1>1, <1>5, <2>3, <2>4 DEF LossInv, Scripted
  <2>6. ~Underway'
    BY <1>1, <1>3, <2>1, <2>2 DEF Underway
  <2> QED
    BY <1>2, <2>5, <2>6 DEF LossInv
<1> QED
  BY <1>4, <1>5

\* A run that is answered with an error is not held to the bound any more.
LEMMA RefusedLoss ==
  ASSUME Inv, LossInv, WingsRefused \/ PageRefused \/ FetchRefused \/ AddRefused
  PROVE  LossInv'
<1>1. /\ script' = script /\ disk' = disk
      /\ env' = [env EXCEPT !.faults = @ + 1, !.refused = TRUE]
      /\ counts' = counts \/ counts' = [counts EXCEPT !.ok = @ + 1]
      /\ \/ pc = "wings" /\ pc' = "wing"
         \/ pc \in {"list", "fetch", "add"} /\ todo' = todo
  BY DEF WingsRefused, PageRefused, FetchRefused, AddRefused, Refused
<1>2. Amounts'
  BY <1>1, AmountsKept DEF LossInv
<1>3. pc # "wings" => pc' \in {"fetch", IF script = "backup" THEN "wing" ELSE "done"}
  BY DEF WingsRefused, PageRefused, FetchRefused, AddRefused, Advance, After
<1>4. script \in {"backup", "migrate"}
  BY DEF Inv, TypeInv
<1>5. Scripted'
  BY <1>1, <1>3, <1>4 DEF LossInv, Scripted
<1>6. env'.refused
  BY <1>1 DEF LossInv, Amounts, Counters
<1> QED
  BY <1>2, <1>5, <1>6 DEF LossInv, Underway

\* Every step keeps the bound.
LEMMA NextLoss == Inv /\ LossInv /\ [Next]_vars => LossInv'
<1> SUFFICES ASSUME Inv, LossInv, [Next]_vars PROVE LossInv'
  OBVIOUS
<1>1. CASE StartBackup \/ StartMigration
  BY <1>1, StartLoss
<1>2. CASE GetWings \/ NextWing \/ OpenDrawers \/ CloseDrawers \/ OpenManifest \/ CloseManifest
  BY <1>2, PlaceLoss
<1>3. CASE CountError \/ GiveUp \/ DrawerGone \/ Killed
  BY <1>3, FailureLoss
<1>4. CASE ListPage \/ FetchDrawer \/ GetDrawer \/ AddDrawer \/ Retry \/ SkipWing \/ SkipDrawer
  BY <1>4, FailedLoss, ListLoss, WaitLoss, DrawerLoss, SkipLoss
<1>8. CASE WingsRefused \/ PageRefused \/ FetchRefused \/ AddRefused
  BY <1>8, RefusedLoss
<1>5. ASSUME NEW w \in Wings, NEW i \in 1..Len(palace[w]), Delete(w, i) PROVE LossInv'
  BY <1>5, DeleteLoss
<1>6. ASSUME NEW w \in Wings, NEW i \in 1..(Len(palace[w]) + 1), NEW d \in Fresh, Add(w, i, d)
      PROVE  LossInv'
  BY <1>6, AddLoss
<1>7. CASE UNCHANGED vars
  <2>1. UNCHANGED <<palace, dest, disk, script, pc, todo, wing, ids, next, records, warned,
                    counts, env>>
    BY <1>7 DEF vars, local
  <2>2. Scripted' /\ Amounts' /\ Underway' = Underway
    BY <2>1 DEF LossInv, Scripted, Amounts, Counters, Underway
  <2>3. Lost' = Lost
    BY <2>1 DEF Lost, Missed, Passed, Pending, Due, Copied
  <2> QED
    BY <2>1, <2>2, <2>3 DEF LossInv, Paid
<1> QED
  BY <1>1, <1>2, <1>3, <1>4, <1>5, <1>6, <1>7, <1>8 DEF Next, Step

----------------------------------------------------------------------------
(* What a run may repeat. *)

\* The drawers of the records, and how many are listed and not yet dealt with.
Ids     == {r.id : r \in ToSet(records)}
Waiting == IF pc \in {"list", "fetch"} THEN Len(ids) + 1 - next ELSE 0
Handled == Ids \cup Pending

\* The drawers that the listing will come to.
Ahead ==
    {d \in Drawers :
       \/ \E w \in todo : d \in ToSet(palace[w])
       \/ pc = "list" /\ \E j \in Len(ids) + 1..Len(palace[wing]) : d = palace[wing][j]}

\* No drawer is in two wings.
Apart == \A v, w \in Wings : v # w => ToSet(palace[v]) \cap ToSet(palace[w]) = {}

Placed ==
    /\ script = "migrate" \/ pc \in {"idle", "wings", "dead"} => records = <<>>
    /\ pc = "list" => wing \notin todo

Whole  == \A r \in ToSet(records) : r.full \/ r.id \notin Present
Intact == ~env.refused => Whole

\* Each record too many, made or still to come, is paid by an addition.
Tallied == Len(records) + Waiting + Cardinality(Handled \cap Ahead)
             <= Cardinality(Handled) + env.added

Recording == script = "backup" /\ pc \notin {"idle", "wings", "dead"}

RepeatInv == Apart /\ Placed /\ Intact /\ (Recording => Tallied)

\* A stretch of a sequence has at most as many elements as places, and as many
\* if they are distinct.
LEMMA Stretch ==
  ASSUME NEW S, NEW s \in Seq(S), NEW a \in Nat, NEW b \in Nat, a <= b + 1,
         a..b \subseteq 1..Len(s)
  PROVE  /\ IsFiniteSet({s[j] : j \in a..b})
         /\ Cardinality({s[j] : j \in a..b}) <= b + 1 - a
         /\ IsInjective(s) => Cardinality({s[j] : j \in a..b}) = b + 1 - a
<1> DEFINE T == {s[j] : j \in a..b}
           f == [j \in a..b |-> s[j]]
<1>1. DOMAIN s = 1..Len(s)
  BY LenProperties
<1>2. f \in Surjection(a..b, T)
  BY DEF Surjection
<1>3. IsFiniteSet(a..b) /\ Cardinality(a..b) = b + 1 - a
  <2>1. /\ IsFiniteSet(a..b)
        /\ Cardinality(a..b) = IF a > b THEN 0 ELSE b - a + 1
    BY FS_Interval
  <2> QED
    BY <2>1
<1>4. IsInjective(s) => f \in Injection(a..b, T)
  <2>1. ASSUME IsInjective(s) PROVE IsInjective(f)
    <3>1. \A j, k \in 1..Len(s) : s[j] = s[k] => j = k
      BY <1>1, <2>1 DEF IsInjective
    <3> QED
      BY <3>1 DEF IsInjective
  <2> QED
    BY <2>1 DEF Injection
<1> HIDE DEF f, T
<1>5. /\ IsFiniteSet(T) /\ Cardinality(T) <= Cardinality(a..b)
      /\ Cardinality(T) = Cardinality(a..b) <=> f \in Injection(a..b, T)
  BY <1>2, <1>3, FS_Surjection
<1> QED
  BY <1>3, <1>4, <1>5 DEF T

\* The records are finitely many, and so are the drawers dealt with; those that
\* wait are at most the places they wait in.
LEMMA Handling ==
  ASSUME TypeInv, Scripted, script = "backup"
  PROVE  /\ IsFiniteSet(Ids) /\ IsFiniteSet(Pending) /\ IsFiniteSet(Handled)
         /\ Waiting \in Nat /\ Cardinality(Pending) \in Nat /\ Cardinality(Pending) <= Waiting
         /\ Cardinality(Ids) \in Nat /\ Cardinality(Handled) \in Nat /\ Len(records) \in Nat
<1>1. records \in Seq(Records) /\ ids \in Seq(Drawers) /\ Len(records) \in Nat /\ Len(ids) \in Nat
  BY LenProperties DEF TypeInv
<1>2. IsFiniteSet(Ids)
  <2> DEFINE f == [j \in 1..Len(records) |-> records[j].id]
  <2>1. DOMAIN records = 1..Len(records)
    BY <1>1, LenProperties
  <2>2. f \in Surjection(1..Len(records), Ids)
    BY <2>1 DEF Surjection, Ids, ToSet
  <2>3. IsFiniteSet(1..Len(records))
    BY <1>1, FS_Interval
  <2> QED
    BY <2>2, <2>3, FS_Surjection
<1>3. IsFiniteSet(Pending) /\ Waiting \in Nat /\ Cardinality(Pending) <= Waiting
  <2>1. CASE pc \in {"list", "fetch"}
    <3>1. next \in 1..Len(ids) + 1
      BY <1>1, <2>1 DEF TypeInv, States
    <3>2. Pending = {ids[j] : j \in next..Len(ids)} /\ Waiting = Len(ids) + 1 - next
      BY <2>1 DEF Pending, Waiting
    <3>3. next..Len(ids) \subseteq 1..Len(ids) /\ next <= Len(ids) + 1 /\ next \in Nat
      BY <1>1, <3>1
    <3>4. /\ IsFiniteSet({ids[j] : j \in next..Len(ids)})
          /\ Cardinality({ids[j] : j \in next..Len(ids)}) <= Len(ids) + 1 - next
      BY <1>1, <3>3, Stretch
    <3> QED
      BY <1>1, <3>1, <3>2, <3>4
  <2>2. CASE pc \notin {"list", "fetch"}
    <3>1. pc # "add"
      BY DEF Scripted
    <3>2. Pending = {} /\ Waiting = 0
      BY <2>2, <3>1 DEF Pending, Waiting
    <3> QED
      BY <3>2, FS_EmptySet
  <2> QED
    BY <2>1, <2>2
<1>4. IsFiniteSet(Handled)
  BY <1>2, <1>3, FS_Union DEF Handled
<1> QED
  BY <1>1, <1>2, <1>3, <1>4, FS_CardinalityType

\* Of what is dealt with, what is ahead is finite.
LEMMA AheadOf ==
  ASSUME NEW H, NEW A, IsFiniteSet(H)
  PROVE  Cardinality(H \cap A) \in Nat /\ IsFiniteSet(H \cap A)
  BY FS_Intersection, FS_CardinalityType

\* Sets that lose some elements lose no more than there are of these.
LEMMA Dropping ==
  ASSUME NEW H, NEW G, NEW Q, IsFiniteSet(G), IsFiniteSet(Q), H \subseteq G \cup Q
  PROVE  /\ Cardinality(H) \in Nat /\ Cardinality(G) \in Nat /\ Cardinality(Q) \in Nat
         /\ IsFiniteSet(H) /\ Cardinality(H) <= Cardinality(G) + Cardinality(Q)
<1>1. IsFiniteSet(G \cup Q) /\ Cardinality(G \cup Q) = Cardinality(G) + Cardinality(Q) - Cardinality(G \cap Q)
  BY FS_Union
<1>2. IsFiniteSet(H) /\ Cardinality(H) <= Cardinality(G \cup Q)
  BY <1>1, FS_Subset
<1>3. /\ Cardinality(H) \in Nat /\ Cardinality(G) \in Nat /\ Cardinality(Q) \in Nat
      /\ Cardinality(G \cap Q) \in Nat
  BY <1>2, AheadOf, FS_CardinalityType
<1> QED
  BY <1>1, <1>2, <1>3

\* A page moves from what is ahead to what is dealt with; what of it was dealt
\* with before had been counted ahead.
LEMMA Paging ==
  ASSUME NEW H, NEW P, NEW A, NEW B, IsFiniteSet(H), IsFiniteSet(P),
         P \subseteq A, B \subseteq A, P \cap B = {}
  PROVE  /\ Cardinality((H \cup P) \cap B) + Cardinality(H) + Cardinality(P)
              <= Cardinality(H \cap A) + Cardinality(H \cup P)
         /\ {Cardinality((H \cup P) \cap B), Cardinality(H), Cardinality(P),
             Cardinality(H \cap A), Cardinality(H \cup P)} \subseteq Nat
<1>1. (H \cup P) \cap B = H \cap B
  OBVIOUS
<1>2. IsFiniteSet(H \cap B) /\ IsFiniteSet(H \cap P) /\ IsFiniteSet(H \cap A)
  BY AheadOf
<1>3. /\ IsFiniteSet((H \cap B) \cup (H \cap P))
      /\ Cardinality((H \cap B) \cup (H \cap P)) =
            Cardinality(H \cap B) + Cardinality(H \cap P) - Cardinality((H \cap B) \cap (H \cap P))
  BY <1>2, FS_Union
<1>4. (H \cap B) \cap (H \cap P) = {}
  OBVIOUS
<1>5. Cardinality((H \cap B) \cup (H \cap P)) <= Cardinality(H \cap A)
  <2>1. (H \cap B) \cup (H \cap P) \subseteq H \cap A
    OBVIOUS
  <2> QED
    BY <1>2, <2>1, FS_Subset
<1>6. /\ IsFiniteSet(H \cup P)
      /\ Cardinality(H \cup P) = Cardinality(H) + Cardinality(P) - Cardinality(H \cap P)
  BY FS_Union
<1>7. /\ Cardinality(H \cap B) \in Nat /\ Cardinality(H \cap P) \in Nat /\ Cardinality(H \cap A) \in Nat
      /\ Cardinality(H) \in Nat /\ Cardinality(P) \in Nat /\ Cardinality(H \cup P) \in Nat
  BY <1>2, <1>6, FS_CardinalityType
<1>8. Cardinality({}) = 0
  BY FS_EmptySet
<1>9. Cardinality(H \cap B) + Cardinality(H \cap P) <= Cardinality(H \cap A)
  BY <1>3, <1>4, <1>5, <1>7, <1>8
<1>10. Cardinality((H \cup P) \cap B) = Cardinality(H \cap B)
  BY <1>1
<1>11. Cardinality(H \cap B) + Cardinality(H) + Cardinality(P)
          <= Cardinality(H \cap A) + Cardinality(H \cup P)
  BY <1>6, <1>7, <1>9
<1> QED
  BY <1>7, <1>10, <1>11

\* Nothing is recorded at first, and no drawer is in two wings.
LEMMA InitRepeat == Init => RepeatInv
<1> SUFFICES ASSUME Init PROVE RepeatInv
  OBVIOUS
<1>1. Apart
  BY DrawerAssumption DEF Init, Apart
<1>2. ToSet(<<>>) = {}
  BY DEF ToSet
<1> QED
  BY <1>1, <1>2 DEF Init, RepeatInv, Placed, Intact, Whole, Recording

\* A run that starts, dies or migrates records nothing.
LEMMA ForgetRepeat ==
  ASSUME RepeatInv, UNCHANGED palace, records' = <<>>,
         script' = "migrate" \/ pc' \in {"wings", "dead"},
         pc' = "list" => wing' \notin todo'
  PROVE  RepeatInv'
<1>1. ToSet(records') = {}
  BY DEF ToSet
<1> QED
  BY <1>1 DEF RepeatInv, Apart, Placed, Intact, Whole, Recording

\* Whole records stay so where neither they nor the wings change.
LEMMA UnwrittenRepeat ==
  ASSUME RepeatInv, UNCHANGED <<palace, script, records>>, script = "backup",
         pc \notin {"idle", "wings", "dead"}, pc' \notin {"idle", "wings", "dead"},
         pc' = "list" => wing' \notin todo',
         env'.refused = env.refused \/ env'.refused,
         Tallied => Tallied'
  PROVE  RepeatInv'
<1>1. Present' = Present /\ ToSet(records') = ToSet(records)
  BY DEF Present
<1>2. Intact'
  BY <1>1 DEF RepeatInv, Intact, Whole
<1>3. Apart' /\ Placed' /\ Recording
  BY DEF RepeatInv, Apart, Placed, Recording
<1> QED
  BY <1>2, <1>3 DEF RepeatInv

\* What keeps the account: as many places, the same drawers, no more ahead.
LEMMA SameTally ==
  ASSUME TypeInv, Scripted, script = "backup", Amounts, Tallied,
         Len(records') + Waiting' = Len(records) + Waiting,
         Handled' = Handled, Handled \cap Ahead' \subseteq Handled \cap Ahead,
         env'.added = env.added
  PROVE  Tallied'
<1>1. IsFiniteSet(Handled) /\ Len(records) \in Nat /\ Waiting \in Nat /\ Cardinality(Handled) \in Nat
  BY Handling
<1>2. /\ IsFiniteSet(Handled \cap Ahead) /\ Cardinality(Handled \cap Ahead) \in Nat
      /\ Cardinality(Handled \cap Ahead') \in Nat
  BY <1>1, AheadOf
<1>3. Cardinality(Handled \cap Ahead') <= Cardinality(Handled \cap Ahead)
  BY <1>2, FS_Subset
<1>4. env.added \in Nat
  BY DEF Amounts, Counters
<1>5. Len(records) + Waiting + Cardinality(Handled \cap Ahead) <= Cardinality(Handled) + env.added
  BY DEF Tallied
<1>6. Len(records) + Waiting + Cardinality(Handled \cap Ahead') <= Cardinality(Handled) + env.added
  BY <1>1, <1>2, <1>3, <1>4, <1>5
<1> QED
  BY <1>6 DEF Tallied

\* The wings are got: all are ahead, and nothing is recorded.
LEMMA WingsRepeat ==
  ASSUME Inv, LossInv, RepeatInv, GetWings \/ WingsRefused
  PROVE  RepeatInv'
<1>1. /\ pc = "wings" /\ pc' = "wing" /\ UNCHANGED <<palace, script, records>>
      /\ env' = env \/ env' = [env EXCEPT !.faults = @ + 1, !.refused = TRUE]
  BY DEF GetWings, WingsRefused, Refused
<1>2. records = <<>> /\ script = "backup"
  BY <1>1 DEF RepeatInv, Placed, LossInv, Scripted
<1>3. ToSet(records') = {} /\ Len(records') = 0
  BY <1>1, <1>2 DEF ToSet
<1>4. Ids' = {} /\ Pending' = {} /\ Waiting' = 0
  BY <1>1, <1>3 DEF Ids, Pending, Waiting
<1>5. Handled' = {} /\ Handled' \cap Ahead' = {}
  BY <1>4 DEF Handled
<1>6. Cardinality({}) = 0
  BY FS_EmptySet
<1>7. env'.added \in Nat
  BY <1>1 DEF LossInv, Amounts, Counters
<1>8. Tallied'
  <2>1. 0 + 0 + 0 <= 0 + env'.added
    BY <1>7
  <2> QED
    BY <1>3, <1>4, <1>5, <1>6, <2>1 DEF Tallied
<1> QED
  BY <1>1, <1>3, <1>8 DEF RepeatInv, Apart, Placed, Intact, Whole

\* The next wing is taken, and is still ahead; or the files are written.
LEMMA PlaceRepeat ==
  ASSUME Inv, LossInv, RepeatInv,
         NextWing \/ OpenDrawers \/ CloseDrawers \/ OpenManifest \/ CloseManifest
  PROVE  RepeatInv'
<1>1. /\ pc \in {"wing", "drawers", "opening", "manifest"} /\ script = "backup"
      /\ UNCHANGED <<palace, script, records, env>>
  BY DEF NextWing, OpenDrawers, CloseDrawers, OpenManifest, CloseManifest, Write, LossInv, Scripted
<1>2. TypeInv /\ Scripted /\ Amounts
  BY DEF Inv, LossInv
<1>3. Waiting = 0 /\ Pending = {}
  BY <1>1 DEF Waiting, Pending
<1>4. CASE NextWing
  <2>1. PICK v \in todo : wing' = v /\ todo' = todo \ {v}
    BY <1>4 DEF NextWing
  <2>2. pc' = "list" /\ ids' = <<>> /\ Len(ids') = 0 /\ next' = 1
    BY <1>4 DEF NextWing
  <2>3. Waiting' = 0 /\ Pending' = {}
    BY <2>2 DEF Waiting, Pending
  <2>4. v \in Wings /\ palace[v] \in Seq(Drawers)
    BY <1>2, <2>1 DEF TypeInv
  <2>5. Ahead' \subseteq Ahead
    <3>1. ASSUME NEW j \in 1..Len(palace[v]) PROVE palace[v][j] \in ToSet(palace[v])
      BY <2>4, LenProperties DEF ToSet
    <3>2. Ahead' = {d \in Drawers : \/ \E w \in todo' : d \in ToSet(palace[w])
                                    \/ \E j \in 1..Len(palace[v]) : d = palace[v][j]}
      BY <1>1, <2>1, <2>2 DEF Ahead
    <3> QED
      BY <2>1, <3>1, <3>2 DEF Ahead
  <2>6. Handled' = Handled
    BY <1>1, <1>3, <2>3 DEF Handled, Ids
  <2>7. Tallied => Tallied'
    BY <1>1, <1>2, <1>3, <2>3, <2>5, <2>6, SameTally
  <2> QED
    BY <1>1, <2>1, <2>2, <2>7, UnwrittenRepeat
<1>5. CASE OpenDrawers \/ CloseDrawers \/ OpenManifest \/ CloseManifest
  <2>1. /\ pc' \in {"drawers", "opening", "manifest", "done"} /\ UNCHANGED <<todo, wing, ids, next>>
    BY <1>5 DEF OpenDrawers, CloseDrawers, OpenManifest, CloseManifest, Write
  <2>2. Waiting' = 0 /\ Pending' = {}
    BY <2>1 DEF Waiting, Pending
  <2>3. Ahead' \subseteq Ahead
    BY <1>1, <2>1 DEF Ahead
  <2>4. Handled' = Handled
    BY <1>1, <1>3, <2>2 DEF Handled, Ids
  <2>5. Tallied => Tallied'
    BY <1>1, <1>2, <1>3, <2>2, <2>3, <2>4, SameTally
  <2> QED
    BY <1>1, <2>1, <2>5, UnwrittenRepeat
<1> QED
  BY <1>4, <1>5

\* A step of a migration records nothing.
LEMMA MigrateRepeat ==
  ASSUME Inv, RepeatInv, script = "migrate",
         \/ ListPage \/ PageRefused \/ GetDrawer \/ AddDrawer \/ AddRefused
         \/ Retry \/ CountError
  PROVE  RepeatInv'
<1>1. records = <<>>
  BY DEF RepeatInv, Placed
<1>2. UNCHANGED <<palace, script, records, todo, wing>>
  BY DEF ListPage, PageRefused, GetDrawer, AddDrawer, AddRefused, Retry, CountError
<1>3. pc' = "list" => pc = "list"
  BY DEF ListPage, PageRefused, GetDrawer, AddDrawer, AddRefused, Retry, CountError, Advance, After
<1> QED
  BY <1>1, <1>2, <1>3, ForgetRepeat DEF RepeatInv, Placed

\* A request is repeated.
LEMMA RetryRepeat == ASSUME Inv, LossInv, RepeatInv, script = "backup", Retry PROVE RepeatInv'
<1>1. /\ UNCHANGED <<palace, script, pc, todo, wing, ids, next, records>>
      /\ env' = [env EXCEPT !.faults = @ + 1]
  BY DEF Retry, Fault
<1>2. env'.added = env.added /\ env'.refused = env.refused
  BY <1>1 DEF LossInv, Amounts, Counters
<1>3. Waiting' = Waiting /\ Handled' = Handled /\ Ahead' = Ahead
  BY <1>1 DEF Waiting, Handled, Ids, Pending, Ahead
<1>4. Tallied' = Tallied
  BY <1>1, <1>2, <1>3 DEF Tallied
<1>5. Present' = Present
  BY <1>1 DEF Present
<1>6. RepeatInv => Intact'
  BY <1>1, <1>2, <1>5 DEF RepeatInv, Intact, Whole
<1> QED
  BY <1>1, <1>4, <1>6 DEF RepeatInv, Apart, Placed, Recording

\* A page is listed: its drawers wait, and are ahead no more.
LEMMA ListRepeat == ASSUME Inv, LossInv, RepeatInv, script = "backup", ListPage PROVE RepeatInv'
<1> DEFINE got == ids \o Page(wing, Len(ids))
           s   == palace[wing]
           P   == {s[j] : j \in Len(ids) + 1..Len(got)}
<1>1. /\ pc = "list" /\ ids' = got
      /\ pc' = IF Page(wing, Len(ids)) = <<>> \/ Len(got) >= Len(s) THEN After(0, got) ELSE "list"
      /\ UNCHANGED <<palace, script, todo, wing, next, records, env>>
  BY DEF ListPage
<1>2. /\ TypeInv /\ Scripted /\ Amounts /\ Tallied /\ Apart /\ wing \notin todo
      /\ wing \in Wings /\ next = 1 /\ s \in Seq(Drawers) /\ IsInjective(s)
      /\ ids \in Seq(Drawers) /\ todo \subseteq Wings
  BY <1>1 DEF Inv, LossInv, RepeatInv, Recording, Placed, TypeInv, States
<1>3. /\ Len(got) \in Nat /\ Len(ids) \in Nat /\ Len(ids) <= Len(got)
      /\ \A j \in 1..Len(ids) : got[j] = ids[j]
      /\ \A j \in Len(ids) + 1..Len(got) : got[j] = s[j] /\ j <= Len(s)
      /\ Page(wing, Len(ids)) = <<>> => Len(s) <= Len(ids)
  BY <1>2, PageElements
<1>4. Len(s) \in Nat /\ DOMAIN s = 1..Len(s) /\ \A j \in 1..Len(s) : s[j] \in Drawers
  BY <1>2, LenProperties, ElementOfSeq
<1> HIDE DEF got
<1>5. \/ pc' = "list"
      \/ pc' = "fetch" /\ Len(s) <= Len(got)
      \/ pc' = "wing" /\ Len(got) = 0 /\ Len(s) = 0
  <2>1. CASE ~(Page(wing, Len(ids)) = <<>> \/ Len(got) >= Len(s))
    BY <1>1, <2>1
  <2>2. CASE Page(wing, Len(ids)) = <<>> \/ Len(got) >= Len(s)
    <3>1. pc' = After(0, got)
      BY <1>1, <2>2
    <3>2. Len(s) <= Len(got)
      BY <1>3, <1>4, <2>2
    <3>3. CASE 0 < Len(got)
      <4>1. After(0, got) = "fetch"
        BY <3>3 DEF After
      <4> QED
        BY <3>1, <3>2, <4>1
    <3>4. CASE Len(got) = 0
      <4>1. Len(s) = 0
        BY <1>4, <3>2, <3>4
      <4>2. After(0, got) = "wing"
        BY <3>4 DEF After
      <4> QED
        BY <3>1, <3>4, <4>1, <4>2
    <3> QED
      BY <1>3, <3>3, <3>4
  <2> QED
    BY <2>1, <2>2
<1>6. Waiting = Len(ids) /\ Waiting' = Len(got)
  <2>1. Waiting = Len(ids)
    BY <1>1, <1>2, <1>3 DEF Waiting
  <2>2. Waiting' = IF pc' \in {"list", "fetch"} THEN Len(got) + 1 - 1 ELSE 0
    BY <1>1, <1>2 DEF Waiting
  <2> QED
    BY <1>3, <1>5, <2>1, <2>2
<1>7. Pending' = Pending \cup P
  <2>1. Pending = {ids[j] : j \in 1..Len(ids)}
    BY <1>1, <1>2 DEF Pending
  <2>2. Pending' = {got[j] : j \in 1..Len(got)}
    <3>1. CASE pc' \in {"list", "fetch"}
      BY <1>1, <1>2, <3>1 DEF Pending
    <3>2. CASE pc' = "wing"
      <4>1. Pending' = {} /\ 1..Len(got) = {}
        BY <1>5, <3>2 DEF Pending
      <4> QED
        BY <4>1
    <3> QED
      BY <1>5, <3>1, <3>2
  <2>3. \A j \in 1..Len(got) : \/ j \in 1..Len(ids) /\ got[j] = ids[j]
                               \/ j \in Len(ids) + 1..Len(got) /\ got[j] = s[j]
    BY <1>3
  <2>4. /\ \A j \in 1..Len(ids) : j \in 1..Len(got) /\ got[j] = ids[j]
        /\ \A j \in Len(ids) + 1..Len(got) : j \in 1..Len(got) /\ got[j] = s[j]
    BY <1>3
  <2> HIDE DEF s
  <2>5. ASSUME NEW j \in 1..Len(got) PROVE got[j] \in Pending \cup P
    BY <2>1, <2>3
  <2>6. ASSUME NEW j \in 1..Len(ids) PROVE ids[j] \in Pending'
    BY <2>2, <2>4
  <2>7. ASSUME NEW j \in Len(ids) + 1..Len(got) PROVE s[j] \in Pending'
    BY <2>2, <2>4
  <2>8. Pending' \subseteq Pending \cup P
    BY <2>2, <2>5
  <2>9. Pending \subseteq Pending'
    BY <2>1, <2>6
  <2>10. P \subseteq Pending'
    BY <2>7
  <2> QED
    BY <2>8, <2>9, <2>10
<1>8. Handled' = Handled \cup P
  BY <1>1, <1>7 DEF Handled, Ids
<1>9. IsFiniteSet(P) /\ Cardinality(P) = Len(got) - Len(ids)
  <2>1. /\ Len(ids) + 1 \in Nat /\ Len(ids) + 1 <= Len(got) + 1
        /\ Len(ids) + 1..Len(got) \subseteq 1..Len(s)
    BY <1>3
  <2>2. IsFiniteSet(P) /\ Cardinality(P) = Len(got) + 1 - (Len(ids) + 1)
    <3> DEFINE a == Len(ids) + 1
    <3>1. a \in Nat /\ a <= Len(got) + 1 /\ a..Len(got) \subseteq 1..Len(s) /\ Len(got) \in Nat
      BY <1>3, <2>1
    <3>2. P = {s[j] : j \in a..Len(got)}
      OBVIOUS
    <3> HIDE DEF P, s, a
    <3>3. /\ IsFiniteSet({s[j] : j \in a..Len(got)})
          /\ IsInjective(s) => Cardinality({s[j] : j \in a..Len(got)}) = Len(got) + 1 - a
      BY <1>2, <3>1, Stretch
    <3> QED
      BY <1>2, <3>2, <3>3 DEF a
  <2> QED
    BY <1>3, <2>2
<1>10. P \subseteq Ahead
  <2>1. ASSUME NEW j \in Len(ids) + 1..Len(got) PROVE s[j] \in Ahead
    <3>1. j \in Len(ids) + 1..Len(s) /\ j \in 1..Len(s)
      BY <1>3, <1>4
    <3>2. s[j] \in Drawers
      BY <1>4, <3>1
    <3> QED
      BY <1>1, <3>1, <3>2 DEF Ahead
  <2> QED
    BY <2>1
<1>11. Ahead' \subseteq Ahead /\ P \cap Ahead' = {}
  <2>1. ASSUME NEW d \in Ahead'
        PROVE  d \in Ahead /\ d \notin P
    <3>1. d \in Drawers
      BY <2>1 DEF Ahead
    <3>2. CASE \E w \in todo : d \in ToSet(palace[w])
      <4>1. PICK w \in todo : d \in ToSet(palace[w])
        BY <3>2
      <4>2. d \notin ToSet(s)
        BY <1>2, <4>1 DEF Apart
      <4>3. \A j \in Len(ids) + 1..Len(got) : s[j] \in ToSet(s)
        BY <1>3, <1>4 DEF ToSet
      <4> QED
        BY <3>1, <4>1, <4>2, <4>3 DEF Ahead
    <3>3. CASE ~\E w \in todo : d \in ToSet(palace[w])
      <4>1. PICK j \in Len(got) + 1..Len(s) : d = s[j]
        BY <1>1, <2>1, <3>3 DEF Ahead
      <4>2. j \in Len(ids) + 1..Len(s) /\ j \in 1..Len(s)
        BY <1>3, <1>4, <4>1
      <4>3. ASSUME NEW k \in Len(ids) + 1..Len(got) PROVE s[k] # d
        <5>1. k \in 1..Len(s) /\ k # j
          BY <1>3, <1>4, <4>1
        <5> QED
          BY <1>2, <1>4, <4>1, <4>2, <5>1 DEF IsInjective
      <4>4. d \notin P
        BY <4>3
      <4> QED
        BY <1>1, <3>1, <4>1, <4>2, <4>4 DEF Ahead
    <3> QED
      BY <3>2, <3>3
  <2> QED
    BY <2>1
<1> HIDE DEF P, s
<1>12. Tallied'
  <2>1. /\ IsFiniteSet(Handled) /\ Len(records) \in Nat
    BY <1>2, Handling
  <2>2. env.added \in Nat
    BY <1>2 DEF Amounts, Counters
  <2>3. /\ Cardinality((Handled \cup P) \cap Ahead') + Cardinality(Handled) + Cardinality(P)
              <= Cardinality(Handled \cap Ahead) + Cardinality(Handled \cup P)
        /\ {Cardinality((Handled \cup P) \cap Ahead'), Cardinality(Handled), Cardinality(P),
            Cardinality(Handled \cap Ahead), Cardinality(Handled \cup P)} \subseteq Nat
    BY <1>9, <1>10, <1>11, <2>1, Paging
  <2>4. Len(records) + Len(ids) + Cardinality(Handled \cap Ahead) <= Cardinality(Handled) + env.added
    BY <1>2, <1>6 DEF Tallied
  <2>5. Len(records) + Len(got) + Cardinality((Handled \cup P) \cap Ahead')
           <= Cardinality(Handled \cup P) + env.added
    <3>1. Cardinality(P) = Len(got) - Len(ids)
      BY <1>9
    <3> QED
      BY <1>3, <2>1, <2>2, <2>3, <2>4, <3>1
  <2> QED
    BY <1>1, <1>6, <1>8, <2>5 DEF Tallied
<1>13. pc' \notin {"idle", "wings", "dead"} /\ wing' \notin todo'
  BY <1>1, <1>2, <1>5
<1> QED
  BY <1>1, <1>12, <1>13, UnwrittenRepeat

\* A page that is refused brings nothing: what was listed is all there is.
LEMMA PageRefusedRepeat ==
  ASSUME Inv, LossInv, RepeatInv, script = "backup", PageRefused
  PROVE  RepeatInv'
<1>1. /\ pc = "list" /\ pc' = IF 0 < Len(ids) THEN "fetch" ELSE "wing"
      /\ UNCHANGED <<palace, script, todo, wing, ids, next, records>>
      /\ env' = [env EXCEPT !.faults = @ + 1, !.refused = TRUE]
  BY DEF PageRefused, Refused, After
<1>2. /\ TypeInv /\ Scripted /\ Amounts /\ next = 1 /\ Len(ids) \in Nat
  BY <1>1, LenProperties DEF Inv, LossInv, TypeInv, States
<1>3. env'.added = env.added /\ env'.refused
  BY <1>1, <1>2 DEF Amounts, Counters
<1>4. Waiting' = Waiting /\ Pending' = Pending
  <2>1. Waiting = Len(ids) /\ Pending = {ids[j] : j \in 1..Len(ids)}
    BY <1>1, <1>2 DEF Waiting, Pending
  <2>2. CASE 0 < Len(ids)
    BY <1>1, <1>2, <2>1, <2>2 DEF Waiting, Pending
  <2>3. CASE Len(ids) = 0
    <3>1. Pending = {} /\ Waiting = 0
      BY <2>1, <2>3
    <3> QED
      BY <1>1, <2>3, <3>1 DEF Waiting, Pending
  <2> QED
    BY <1>2, <2>2, <2>3
<1>5. Handled' = Handled /\ Ahead' \subseteq Ahead
  BY <1>1, <1>4 DEF Handled, Ids, Ahead
<1>6. Tallied => Tallied'
  BY <1>1, <1>2, <1>3, <1>4, <1>5, SameTally
<1> QED
  BY <1>1, <1>3, <1>6, UnwrittenRepeat

\* A drawer is recorded: it waited, and has its content if it is there.
LEMMA FetchRepeat ==
  ASSUME Inv, LossInv, RepeatInv, FetchDrawer \/ FetchRefused
  PROVE  RepeatInv'
<1>0. PICK full \in BOOLEAN :
         /\ records' = Append(records, [id |-> ids[next], full |-> full])
         /\ \/ (full <=> ids[next] \in Present) /\ env' = env
            \/ env' = [env EXCEPT !.faults = @ + 1, !.refused = TRUE]
  BY Recorded, Zenon
<1> DEFINE rec == [id |-> ids[next], full |-> full]
<1>1. /\ pc = "fetch" /\ script = "backup" /\ Advance /\ records' = Append(records, rec)
      /\ UNCHANGED <<palace, script, todo, wing, ids>>
      /\ env' = env \/ env' = [env EXCEPT !.faults = @ + 1, !.refused = TRUE]
  BY <1>0 DEF FetchDrawer, FetchRefused
<1>2. /\ TypeInv /\ Scripted /\ Amounts /\ Tallied /\ records \in Seq(Records)
      /\ next \in 1..Len(ids) /\ ids \in Seq(Drawers)
  BY <1>1 DEF Inv, LossInv, RepeatInv, Recording, TypeInv, States
<1>3. /\ Len(ids) \in Nat /\ next' = next + 1
      /\ pc' = IF next < Len(ids) THEN "fetch" ELSE "wing"
  BY <1>1, <1>2, LenProperties DEF Advance, After
<1>4. rec \in Records
  <2>1. ids[next] \in Drawers
    BY <1>2, ElementOfSeq
  <2> QED
    BY <2>1 DEF Records
<1>5. rec.id = ids[next] /\ rec.full = full
  OBVIOUS
<1> HIDE DEF rec
<1>6. Len(records') = Len(records) + 1 /\ Len(records) \in Nat /\ ToSet(records') = ToSet(records) \cup {rec}
  <2>1. /\ Append(records, rec) \in Seq(Records)
        /\ Len(Append(records, rec)) = Len(records) + 1
        /\ \A j \in 1..Len(records) : Append(records, rec)[j] = records[j]
        /\ Append(records, rec)[Len(records) + 1] = rec
    BY <1>2, <1>4, AppendProperties
  <2>2. /\ Len(records) \in Nat /\ DOMAIN records = 1..Len(records)
        /\ DOMAIN Append(records, rec) = 1..Len(records) + 1
    BY <1>2, <2>1, LenProperties
  <2>3. \A j \in 1..Len(records) + 1 : j \in 1..Len(records) \/ j = Len(records) + 1
    BY <2>2
  <2>4. ToSet(Append(records, rec)) \subseteq ToSet(records) \cup {rec}
    BY <2>1, <2>2, <2>3 DEF ToSet
  <2>5. /\ \A j \in 1..Len(records) : j \in 1..Len(records) + 1
        /\ Len(records) + 1 \in 1..Len(records) + 1
    BY <2>2
  <2>6. ToSet(records) \cup {rec} \subseteq ToSet(Append(records, rec))
    BY <2>1, <2>2, <2>5 DEF ToSet
  <2> QED
    BY <1>1, <2>1, <2>2, <2>4, <2>6
<1>7. Ids' = Ids \cup {ids[next]}
  BY <1>5, <1>6 DEF Ids
<1>8. Waiting = Waiting' + 1 /\ Waiting' \in Nat /\ Pending = Pending' \cup {ids[next]}
  <2>1. Pending = {ids[j] : j \in next..Len(ids)} /\ Waiting = Len(ids) + 1 - next
    BY <1>1 DEF Pending, Waiting
  <2>2. CASE next < Len(ids)
    <3>1. Pending' = {ids[j] : j \in next + 1..Len(ids)} /\ Waiting' = Len(ids) + 1 - (next + 1)
      BY <1>1, <1>3, <2>2 DEF Pending, Waiting
    <3>2. /\ \A j \in next..Len(ids) : j = next \/ j \in next + 1..Len(ids)
          /\ \A j \in next + 1..Len(ids) : j \in next..Len(ids)
          /\ next \in next..Len(ids)
      BY <1>2, <1>3
    <3>3. Pending = Pending' \cup {ids[next]}
      BY <2>1, <3>1, <3>2
    <3> QED
      BY <1>2, <1>3, <2>1, <2>2, <3>1, <3>3
  <2>3. CASE ~(next < Len(ids))
    <3>1. Pending' = {} /\ Waiting' = 0
      BY <1>3, <2>3 DEF Pending, Waiting
    <3>2. next = Len(ids)
      BY <1>2, <1>3, <2>3
    <3>3. next..Len(ids) = {next}
      BY <1>3, <3>2
    <3>4. Pending = {ids[next]}
      BY <2>1, <3>3
    <3> QED
      BY <1>3, <2>1, <3>1, <3>2, <3>4
  <2> QED
    BY <2>2, <2>3
<1>9. Handled' = Handled
  BY <1>7, <1>8 DEF Handled
<1>10. Ahead' \subseteq Ahead
  BY <1>1, <1>3 DEF Ahead
<1>11. Tallied'
  <2>1. Len(records') + Waiting' = Len(records) + Waiting
    BY <1>6, <1>8
  <2>2. env'.added = env.added
    BY <1>1, <1>2 DEF Amounts, Counters
  <2> QED
    BY <1>1, <1>2, <1>9, <1>10, <2>1, <2>2, SameTally
<1>12. Intact'
  <2>1. CASE env' = env
    <3>1. Present' = Present
      BY <1>1 DEF Present
    <3>2. ~env.refused => rec.full \/ rec.id \notin Present
      BY <1>0, <1>2, <1>5, <2>1 DEF Amounts, Counters
    <3> QED
      BY <1>6, <2>1, <3>1, <3>2 DEF Whole, Intact, RepeatInv
  <2>2. CASE env' # env
    BY <1>1, <1>2, <2>2 DEF Intact, Amounts, Counters
  <2> QED
    BY <2>1, <2>2
<1> QED
  BY <1>1, <1>3, <1>11, <1>12 DEF RepeatInv, Apart, Placed

\* An account stays balanced when what leaves one side leaves the other.
LEMMA Balance ==
  ASSUME NEW n \in Nat, NEW w \in Nat, NEW v \in Nat, NEW x \in Nat, NEW y \in Nat,
         NEW h \in Nat, NEW g \in Nat, NEW q \in Nat, NEW a \in Nat,
         n + w + x <= h + a, y <= x, h <= g + q, v + q <= w
  PROVE  n + v + y <= g + a
  OBVIOUS

\* Drawers that are skipped are dealt with no more, and nothing is recorded.
LEMMA DropRepeat ==
  ASSUME TypeInv, Scripted, script = "backup", Amounts, Tallied, NEW Q, IsFiniteSet(Q),
         records' = records, env'.added = env.added, Ahead' \subseteq Ahead,
         Waiting' \in Nat, Waiting' + Cardinality(Q) <= Waiting,
         Handled' \subseteq Handled, Handled \subseteq Handled' \cup Q
  PROVE  Tallied'
<1>1. /\ IsFiniteSet(Handled) /\ Len(records) \in Nat /\ Waiting \in Nat
      /\ Cardinality(Handled) \in Nat
  BY Handling
<1>2. IsFiniteSet(Handled')
  BY <1>1, FS_Subset
<1>3. /\ Cardinality(Handled') \in Nat /\ Cardinality(Q) \in Nat
      /\ Cardinality(Handled) <= Cardinality(Handled') + Cardinality(Q)
  BY <1>2, Dropping
<1>4. /\ IsFiniteSet(Handled \cap Ahead) /\ Cardinality(Handled \cap Ahead) \in Nat
      /\ Cardinality(Handled' \cap Ahead') \in Nat
  BY <1>1, <1>2, AheadOf
<1>5. Cardinality(Handled' \cap Ahead') <= Cardinality(Handled \cap Ahead)
  <2>1. Handled' \cap Ahead' \subseteq Handled \cap Ahead
    OBVIOUS
  <2> QED
    BY <1>4, <2>1, FS_Subset
<1>6. env.added \in Nat
  BY DEF Amounts, Counters
<1>7. Len(records) + Waiting + Cardinality(Handled \cap Ahead) <= Cardinality(Handled) + env.added
  BY DEF Tallied
<1>8. Len(records) + Waiting' + Cardinality(Handled' \cap Ahead') <= Cardinality(Handled') + env.added
  BY <1>1, <1>3, <1>4, <1>5, <1>6, <1>7, Balance
<1> QED
  BY <1>8 DEF Tallied

\* The drawers listed of a wing that is skipped wait no more.
LEMMA SkipWingRepeat == ASSUME Inv, LossInv, RepeatInv, SkipWing PROVE RepeatInv'
<1>1. /\ pc = "list" /\ pc' = "wing" /\ script = "backup"
      /\ UNCHANGED <<palace, script, todo, wing, ids, next, records>>
      /\ env' = [env EXCEPT !.faults = @ + 1]
  BY DEF SkipWing, LastAttempt, Fault
<1>2. TypeInv /\ Scripted /\ Amounts /\ Tallied
  BY <1>1 DEF Inv, LossInv, RepeatInv, Recording
<1>3. env'.added = env.added
  BY <1>1, <1>2 DEF Amounts, Counters
<1>4. IsFiniteSet(Pending) /\ Cardinality(Pending) \in Nat /\ Cardinality(Pending) <= Waiting
  BY <1>1, <1>2, Handling
<1>5. Waiting' = 0 /\ Pending' = {}
  BY <1>1 DEF Waiting, Pending
<1>6. Waiting' \in Nat /\ Waiting' + Cardinality(Pending) <= Waiting
  BY <1>4, <1>5
<1>7. Handled' \subseteq Handled /\ Handled \subseteq Handled' \cup Pending
  BY <1>1, <1>5 DEF Handled, Ids
<1>8. Ahead' \subseteq Ahead
  BY <1>1 DEF Ahead
<1>9. Tallied'
  BY <1>1, <1>2, <1>3, <1>4, <1>6, <1>7, <1>8, DropRepeat
<1> QED
  BY <1>1, <1>9, UnwrittenRepeat

\* A drawer that is skipped waits no more.
LEMMA SkipDrawerRepeat == ASSUME Inv, LossInv, RepeatInv, SkipDrawer PROVE RepeatInv'
<1>1. /\ pc = "fetch" /\ script = "backup" /\ Advance
      /\ UNCHANGED <<palace, script, todo, wing, ids, records>>
      /\ env' = [env EXCEPT !.faults = @ + 1]
  BY DEF SkipDrawer, LastAttempt, Fault
<1>2. /\ TypeInv /\ Scripted /\ Amounts /\ Tallied /\ next \in 1..Len(ids) /\ ids \in Seq(Drawers)
  BY <1>1 DEF Inv, LossInv, RepeatInv, Recording, TypeInv, States
<1>3. env'.added = env.added
  BY <1>1, <1>2 DEF Amounts, Counters
<1>4. /\ Len(ids) \in Nat /\ next' = next + 1
      /\ pc' = IF next < Len(ids) THEN "fetch" ELSE "wing"
  BY <1>1, <1>2, LenProperties DEF Advance, After
<1>5. /\ Waiting' + 1 <= Waiting /\ Waiting' \in Nat
      /\ Pending \subseteq Pending' \cup {ids[next]} /\ Pending' \subseteq Pending
  <2>1. Pending = {ids[j] : j \in next..Len(ids)} /\ Waiting = Len(ids) + 1 - next
    BY <1>1 DEF Pending, Waiting
  <2>2. CASE next < Len(ids)
    <3>1. Pending' = {ids[j] : j \in next + 1..Len(ids)} /\ Waiting' = Len(ids) + 1 - (next + 1)
      BY <1>1, <1>4, <2>2 DEF Pending, Waiting
    <3>2. /\ \A j \in next..Len(ids) : j = next \/ j \in next + 1..Len(ids)
          /\ \A j \in next + 1..Len(ids) : j \in next..Len(ids)
      BY <1>2, <1>4
    <3>3. Pending \subseteq Pending' \cup {ids[next]} /\ Pending' \subseteq Pending
      BY <2>1, <3>1, <3>2
    <3> QED
      BY <1>2, <1>4, <2>1, <2>2, <3>1, <3>3
  <2>3. CASE ~(next < Len(ids))
    <3>1. Pending' = {} /\ Waiting' = 0
      BY <1>4, <2>3 DEF Pending, Waiting
    <3>2. next = Len(ids)
      BY <1>2, <1>4, <2>3
    <3>3. next..Len(ids) = {next}
      BY <1>4, <3>2
    <3>4. Pending = {ids[next]}
      BY <2>1, <3>3
    <3> QED
      BY <1>4, <2>1, <3>1, <3>2, <3>4
  <2> QED
    BY <2>2, <2>3
<1>6. Handled' \subseteq Handled /\ Handled \subseteq Handled' \cup {ids[next]}
  BY <1>1, <1>5 DEF Handled, Ids
<1>7. IsFiniteSet({ids[next]}) /\ Cardinality({ids[next]}) = 1
  BY FS_Singleton
<1>8. Waiting' + Cardinality({ids[next]}) <= Waiting
  BY <1>5, <1>7
<1>9. Ahead' \subseteq Ahead
  BY <1>1, <1>4 DEF Ahead
<1>10. Tallied'
  BY <1>1, <1>2, <1>3, <1>5, <1>6, <1>7, <1>8, <1>9, DropRepeat
<1> QED
  BY <1>1, <1>4, <1>10, UnwrittenRepeat

\* What a user's change leaves alone of the records, and counts.
LEMMA ChangeRepeat ==
  ASSUME Inv, LossInv, NEW w \in Wings, NEW drawers, NEW field \in {"deleted", "added"},
         Change(w, drawers, field)
  PROVE  /\ palace' = [palace EXCEPT ![w] = drawers] /\ palace'[w] = drawers
         /\ \A v \in Wings : v # w => palace'[v] = palace[v]
         /\ Handled' = Handled /\ Waiting' = Waiting /\ Recording' = Recording
         /\ (Placed' <=> Placed) /\ UNCHANGED <<pc, todo, wing, ids, records>>
         /\ env'.added = IF field = "added" /\ Listing(w) THEN env.added + 1 ELSE env.added
         /\ env'.refused = env.refused
<1>1. /\ UNCHANGED <<dest, disk, local>> /\ palace' = [palace EXCEPT ![w] = drawers]
      /\ env' = [env EXCEPT !.writes = @ + 1, ![field] = IF Listing(w) THEN @ + 1 ELSE @]
  BY DEF Change
<1>2. env \in Counters
  BY DEF LossInv, Amounts, Counters
<1>3. palace \in [Wings -> Seq(Drawers)]
  BY DEF Inv, TypeInv
<1>4. env'.added = IF field = "added" /\ Listing(w) THEN env.added + 1 ELSE env.added
  <2> DEFINE k == IF Listing(w) THEN env[field] + 1 ELSE env[field]
             e == [env EXCEPT !.writes = @ + 1]
  <2>1. env' = [e EXCEPT ![field] = k]
    BY <1>1, <1>2 DEF Counters
  <2>2. e.added = env.added /\ DOMAIN e = DOMAIN env
    BY <1>2 DEF Counters
  <2> HIDE DEF k, e
  <2>3. CASE field = "added"
    <3>1. env'.added = k
      BY <1>2, <2>1, <2>2, <2>3 DEF Counters
    <3>2. k = IF Listing(w) THEN env.added + 1 ELSE env.added
      BY <2>3 DEF k
    <3> QED
      BY <2>3, <3>1, <3>2
  <2>4. CASE field = "deleted"
    <3>1. env'.added = e.added
      BY <1>2, <2>1, <2>2, <2>4 DEF Counters
    <3> QED
      BY <2>2, <2>4, <3>1
  <2> QED
    BY <2>3, <2>4
<1>5. /\ Handled' = Handled /\ Waiting' = Waiting /\ Recording' = Recording /\ (Placed' <=> Placed)
      /\ UNCHANGED <<pc, todo, wing, ids, records>>
  BY <1>1 DEF Handled, Ids, Pending, Waiting, Recording, Placed, local
<1>6. env'.refused = env.refused
  BY <1>1, <1>2 DEF Counters
<1> QED
  BY <1>1, <1>3, <1>4, <1>5, <1>6

\* A drawer deleted is ahead no more, and the others keep their order.
LEMMA DeleteRepeat ==
  ASSUME Inv, LossInv, RepeatInv, NEW w \in Wings, NEW i \in 1..Len(palace[w]), Delete(w, i)
  PROVE  RepeatInv'
<1> DEFINE s == palace[w]
           r == RemoveAt(s, i)
<1>1. s \in Seq(Drawers) /\ IsInjective(s) /\ Len(s) \in Nat /\ Len(ids) \in Nat /\ DOMAIN s = 1..Len(s)
  BY LenProperties DEF Inv, TypeInv
<1>2. /\ r \in Seq(Drawers) /\ Len(r) = Len(s) - 1
      /\ \A j \in 1..Len(s) - 1 : r[j] = IF j <= i - 1 THEN s[j] ELSE s[j + 1]
  BY <1>1, Removing
<1>3. Change(w, r, "deleted")
  BY DEF Delete
<1> HIDE DEF r
<1>4. /\ palace'[w] = r /\ \A v \in Wings : v # w => palace'[v] = palace[v]
      /\ Handled' = Handled /\ Waiting' = Waiting /\ Recording' = Recording
      /\ (Placed' <=> Placed) /\ UNCHANGED <<pc, todo, wing, ids, records>>
      /\ env'.added = env.added /\ env'.refused = env.refused
  BY <1>3, ChangeRepeat
<1>5. \A j \in 1..Len(r) : \E k \in 1..Len(s) : r[j] = s[k] /\ j <= k
  <2>1. ASSUME NEW j \in 1..Len(r) PROVE \E k \in 1..Len(s) : r[j] = s[k] /\ j <= k
    <3>1. CASE j <= i - 1
      <4>1. j \in 1..Len(s) /\ r[j] = s[j] /\ j <= j
        BY <1>1, <1>2, <3>1
      <4> QED
        BY <4>1
    <3>2. CASE ~(j <= i - 1)
      <4>1. j + 1 \in 1..Len(s) /\ r[j] = s[j + 1] /\ j <= j + 1
        BY <1>1, <1>2, <3>2
      <4> QED
        BY <4>1
    <3> QED
      BY <3>1, <3>2
  <2> QED
    BY <2>1
<1>6. \A v \in Wings : ToSet(palace'[v]) \subseteq ToSet(palace[v])
  <2>1. DOMAIN r = 1..Len(r)
    BY <1>2, LenProperties
  <2>2. ToSet(r) \subseteq ToSet(s)
    BY <1>1, <1>5, <2>1 DEF ToSet
  <2>3. ASSUME NEW v \in Wings PROVE ToSet(palace'[v]) \subseteq ToSet(palace[v])
    <3>1. CASE v = w
      BY <1>4, <2>2, <3>1
    <3>2. CASE v # w
      <4>1. palace'[v] = palace[v]
        BY <1>4, <3>2
      <4> QED
        BY <4>1
    <3> QED
      BY <3>1, <3>2
  <2> QED
    BY <2>3
<1>7. Apart' /\ Present' \subseteq Present
  <2>1. ASSUME NEW u \in Wings, NEW v \in Wings, u # v
        PROVE  ToSet(palace'[u]) \cap ToSet(palace'[v]) = {}
    <3>1. ToSet(palace[u]) \cap ToSet(palace[v]) = {}
      BY <2>1 DEF RepeatInv, Apart
    <3> QED
      BY <1>6, <3>1
  <2>2. Apart'
    BY <2>1 DEF Apart
  <2>3. Present' \subseteq Present
    BY <1>6 DEF Present
  <2> QED
    BY <2>2, <2>3
<1>8. Intact'
  BY <1>4, <1>7 DEF RepeatInv, Intact, Whole
<1>9. Ahead' \subseteq Ahead
  <2>1. ASSUME NEW d \in Ahead' PROVE d \in Ahead
    <3>1. CASE \E v \in todo : d \in ToSet(palace'[v])
      <4>1. PICK v \in todo : d \in ToSet(palace'[v])
        BY <3>1
      <4>2. v \in Wings
        BY DEF Inv, TypeInv
      <4> QED
        BY <1>6, <2>1, <4>1, <4>2 DEF Ahead
    <3>2. CASE ~\E v \in todo : d \in ToSet(palace'[v])
      <4>1. pc = "list" /\ \E j \in Len(ids) + 1..Len(palace'[wing]) : d = palace'[wing][j]
        BY <1>4, <2>1, <3>2 DEF Ahead
      <4>2. PICK j \in Len(ids) + 1..Len(palace'[wing]) : d = palace'[wing][j]
        BY <4>1
      <4>3. CASE wing # w
        <5>1. palace'[wing] = palace[wing]
          BY <1>4, <4>1, <4>3 DEF Inv, TypeInv, States
        <5> QED
          BY <2>1, <4>1, <5>1 DEF Ahead
      <4>4. CASE wing = w
        <5>1. j \in 1..Len(r) /\ d = r[j]
          BY <1>1, <1>2, <1>4, <4>2, <4>4
        <5>2. PICK k \in 1..Len(s) : r[j] = s[k] /\ j <= k
          BY <1>5, <5>1
        <5>3. k \in Len(ids) + 1..Len(s)
          BY <1>1, <1>2, <1>4, <4>2, <4>4, <5>2
        <5> QED
          BY <2>1, <4>1, <4>4, <5>1, <5>2, <5>3 DEF Ahead
      <4> QED
        BY <4>3, <4>4
    <3> QED
      BY <3>1, <3>2
  <2> QED
    BY <2>1
<1>10. Recording => Tallied'
  <2>1. Recording => TypeInv /\ Scripted /\ Amounts /\ Tallied /\ script = "backup"
    BY DEF Inv, LossInv, RepeatInv, Recording
  <2>2. Len(records') + Waiting' = Len(records) + Waiting
    BY <1>4
  <2> QED
    BY <1>4, <1>9, <2>1, <2>2, SameTally
<1> QED
  BY <1>4, <1>7, <1>8, <1>10 DEF RepeatInv

\* A drawer added is nobody's yet; under the listing it may push one that was
\* listed behind the offset.
LEMMA AddRepeat ==
  ASSUME Inv, LossInv, RepeatInv, NEW w \in Wings, NEW i \in 1..Len(palace[w]) + 1,
         NEW e \in Fresh, Add(w, i, e)
  PROVE  RepeatInv'
<1> DEFINE s == palace[w]
           r == InsertAt(s, i, e)
           y == s[Len(ids)]
<1>1. s \in Seq(Drawers) /\ IsInjective(s) /\ Len(s) \in Nat /\ Len(ids) \in Nat /\ DOMAIN s = 1..Len(s)
  BY LenProperties DEF Inv, TypeInv
<1>2. e \in Drawers /\ e \notin Present /\ e \notin ToSet(ids) /\ e \notin Ids
  BY DEF Add, Drawers, Ids
<1>3. e \notin ToSet(s)
  BY <1>2 DEF Present
<1>4. /\ r \in Seq(Drawers) /\ Len(r) = Len(s) + 1
      /\ \A j \in 1..Len(s) + 1 : r[j] = IF j < i THEN s[j] ELSE IF j = i THEN e ELSE s[j - 1]
  <2>1. i \in 1..Len(s) + 1
    OBVIOUS
  <2>2. s \in Seq(Drawers) /\ IsInjective(s) /\ e \in Drawers /\ e \notin ToSet(s)
    BY <1>1, <1>2, <1>3
  <2> HIDE DEF s
  <2>3. /\ InsertAt(s, i, e) \in Seq(Drawers) /\ IsInjective(InsertAt(s, i, e))
        /\ Len(InsertAt(s, i, e)) = Len(s) + 1
        /\ \A j \in 1..Len(s) + 1 : InsertAt(s, i, e)[j] =
              IF j < i THEN s[j] ELSE IF j = i THEN e ELSE s[j - 1]
    BY <2>1, <2>2, Inserting
  <2> QED
    BY <2>3
<1>5. Change(w, r, "added")
  BY DEF Add
<1> HIDE DEF r
<1>6. /\ palace'[w] = r /\ \A v \in Wings : v # w => palace'[v] = palace[v]
      /\ Handled' = Handled /\ Waiting' = Waiting /\ Recording' = Recording
      /\ (Placed' <=> Placed) /\ UNCHANGED <<pc, todo, wing, ids, records>>
      /\ env'.added = IF Listing(w) THEN env.added + 1 ELSE env.added
      /\ env'.refused = env.refused
  BY <1>5, ChangeRepeat
<1>7. \A j \in 1..Len(r) : r[j] = e \/ \E k \in 1..Len(s) : r[j] = s[k] /\ j <= k + 1
                                         /\ (j = k + 1 \/ j = k)
  <2>1. ASSUME NEW j \in 1..Len(r), r[j] # e
        PROVE  \E k \in 1..Len(s) : r[j] = s[k] /\ j <= k + 1 /\ (j = k + 1 \/ j = k)
    <3>1. CASE j < i
      <4>1. j \in 1..Len(s) /\ r[j] = s[j] /\ j <= j + 1
        BY <1>1, <1>4, <3>1
      <4> QED
        BY <4>1
    <3>2. CASE ~(j < i)
      <4>1. j # i
        BY <1>4, <2>1
      <4>2. j - 1 \in 1..Len(s) /\ r[j] = s[j - 1] /\ j = (j - 1) + 1
        BY <1>1, <1>4, <3>2, <4>1
      <4> QED
        BY <4>2
    <3> QED
      BY <3>1, <3>2
  <2> QED
    BY <2>1
<1>8. \A v \in Wings : ToSet(palace'[v]) \subseteq ToSet(palace[v]) \cup (IF v = w THEN {e} ELSE {})
  <2>1. DOMAIN r = 1..Len(r)
    BY <1>4, LenProperties
  <2>2. ToSet(r) \subseteq ToSet(s) \cup {e}
    BY <1>1, <1>7, <2>1 DEF ToSet
  <2>3. ASSUME NEW v \in Wings
        PROVE  ToSet(palace'[v]) \subseteq ToSet(palace[v]) \cup (IF v = w THEN {e} ELSE {})
    <3>1. CASE v = w
      BY <1>6, <2>2, <3>1
    <3>2. CASE v # w
      <4>1. palace'[v] = palace[v]
        BY <1>6, <3>2
      <4> QED
        BY <4>1
    <3> QED
      BY <3>1, <3>2
  <2> QED
    BY <2>3
<1>9. Apart'
  <2>1. ASSUME NEW u \in Wings, NEW v \in Wings, u # v
        PROVE  ToSet(palace'[u]) \cap ToSet(palace'[v]) = {}
    <3>1. ToSet(palace[u]) \cap ToSet(palace[v]) = {}
      BY <2>1 DEF RepeatInv, Apart
    <3>2. e \notin ToSet(palace[u]) /\ e \notin ToSet(palace[v])
      BY <1>2 DEF Present
    <3>3. ~(u = w /\ v = w)
      BY <2>1
    <3> QED
      BY <1>8, <3>1, <3>2, <3>3
  <2> QED
    BY <2>1 DEF Apart
<1>10. Present' \subseteq Present \cup {e}
  BY <1>8 DEF Present
<1>11. Intact'
  <2>1. ASSUME ~env.refused, NEW rec \in ToSet(records)
        PROVE  rec.full \/ rec.id \notin Present'
    <3>1. rec.id # e
      BY <1>2, <2>1 DEF Ids
    <3>2. rec.full \/ rec.id \notin Present
      BY <2>1 DEF RepeatInv, Intact, Whole
    <3> QED
      BY <1>10, <3>1, <3>2
  <2> QED
    BY <1>6, <2>1 DEF Intact, Whole
<1>12. Ahead' \subseteq Ahead \cup {e} \cup (IF Listing(w) THEN {y} ELSE {})
  <2>1. ASSUME NEW d \in Ahead', d # e, ~(Listing(w) /\ d = y) PROVE d \in Ahead
    <3>1. CASE \E v \in todo : d \in ToSet(palace'[v])
      <4>1. PICK v \in todo : d \in ToSet(palace'[v])
        BY <3>1
      <4>2. v \in Wings
        BY DEF Inv, TypeInv
      <4>3. d \in ToSet(palace[v])
        BY <1>8, <2>1, <4>1, <4>2
      <4> QED
        BY <2>1, <4>1, <4>3 DEF Ahead
    <3>2. CASE ~\E v \in todo : d \in ToSet(palace'[v])
      <4>1. pc = "list" /\ \E j \in Len(ids) + 1..Len(palace'[wing]) : d = palace'[wing][j]
        BY <1>6, <2>1, <3>2 DEF Ahead
      <4>2. PICK j \in Len(ids) + 1..Len(palace'[wing]) : d = palace'[wing][j]
        BY <4>1
      <4>3. CASE wing # w
        <5>1. palace'[wing] = palace[wing]
          BY <1>6, <4>1, <4>3 DEF Inv, TypeInv, States
        <5> QED
          BY <2>1, <4>1, <5>1 DEF Ahead
      <4>4. CASE wing = w
        <5>1. j \in 1..Len(r) /\ d = r[j]
          BY <1>1, <1>4, <1>6, <4>2, <4>4
        <5>2. PICK k \in 1..Len(s) : r[j] = s[k] /\ j <= k + 1 /\ (j = k + 1 \/ j = k)
          BY <1>7, <2>1, <5>1
        <5>3. k # Len(ids)
          BY <2>1, <4>1, <4>4, <5>1, <5>2 DEF Listing
        <5>4. k \in Len(ids) + 1..Len(s)
          BY <1>1, <1>4, <1>6, <4>2, <4>4, <5>2, <5>3
        <5> QED
          BY <2>1, <4>1, <4>4, <5>1, <5>2, <5>4 DEF Ahead
      <4> QED
        BY <4>3, <4>4
    <3> QED
      BY <3>1, <3>2
  <2> QED
    BY <2>1
<1>13. e \notin Handled
  <2>1. Pending \subseteq ToSet(ids)
    <3>1. ids \in Seq(Drawers) /\ DOMAIN ids = 1..Len(ids)
      BY LenProperties DEF Inv, TypeInv
    <3>2. pc \in {"list", "fetch", "add"} => next \in Nat \ {0}
      BY <1>1 DEF Inv, TypeInv, States
    <3>3. pc \in {"list", "fetch", "add"} => next..Len(ids) \subseteq 1..Len(ids)
      BY <1>1, <3>2
    <3> QED
      BY <3>1, <3>3 DEF Pending, ToSet
  <2> QED
    BY <1>2, <2>1 DEF Handled
<1>14. Recording => Tallied'
  <2>1. SUFFICES ASSUME Recording PROVE Tallied'
    OBVIOUS
  <2>2. TypeInv /\ Scripted /\ Amounts /\ Tallied /\ script = "backup"
    BY <2>1 DEF Inv, LossInv, RepeatInv, Recording
  <2>3. CASE ~Listing(w)
    <3>1. Handled \cap Ahead' \subseteq Handled \cap Ahead /\ env'.added = env.added
      BY <1>6, <1>12, <1>13, <2>3
    <3>2. Len(records') + Waiting' = Len(records) + Waiting
      BY <1>6
    <3> QED
      BY <1>6, <2>2, <3>1, <3>2, SameTally
  <2>4. CASE Listing(w)
    <3>1. /\ IsFiniteSet(Handled) /\ Len(records) \in Nat /\ Waiting \in Nat
          /\ Cardinality(Handled) \in Nat
      BY <2>2, Handling
    <3>2. IsFiniteSet(Handled \cap Ahead)
      BY <3>1, AheadOf
    <3>3. Handled \cap Ahead' \subseteq (Handled \cap Ahead) \cup {y}
      BY <1>12, <1>13, <2>4
    <3>4. IsFiniteSet({y}) /\ Cardinality({y}) = 1
      BY FS_Singleton
    <3> HIDE DEF y
    <3>5. /\ Cardinality(Handled \cap Ahead') \in Nat /\ Cardinality(Handled \cap Ahead) \in Nat
          /\ Cardinality(Handled \cap Ahead') <= Cardinality(Handled \cap Ahead) + Cardinality({y})
      BY <3>2, <3>3, <3>4, Dropping
    <3>6. Cardinality(Handled \cap Ahead') <= Cardinality(Handled \cap Ahead) + 1
      BY <3>4, <3>5
    <3>7. env.added \in Nat /\ env'.added = env.added + 1
      BY <1>6, <2>2, <2>4 DEF Amounts, Counters
    <3>8. Len(records) + Waiting + Cardinality(Handled \cap Ahead) <= Cardinality(Handled) + env.added
      BY <2>2 DEF Tallied
    <3>9. Len(records) + Waiting + Cardinality(Handled \cap Ahead') <= Cardinality(Handled) + (env.added + 1)
      BY <3>1, <3>5, <3>6, <3>7, <3>8
    <3> QED
      BY <1>6, <3>7, <3>9 DEF Tallied
  <2> QED
    BY <2>3, <2>4
<1> QED
  BY <1>6, <1>9, <1>11, <1>14 DEF RepeatInv

\* Every step keeps the account.
LEMMA NextRepeat == Inv /\ LossInv /\ RepeatInv /\ [Next]_vars => RepeatInv'
<1> SUFFICES ASSUME Inv, LossInv, RepeatInv, [Next]_vars PROVE RepeatInv'
  OBVIOUS
<1>1. CASE StartBackup \/ StartMigration
  <2>1. UNCHANGED palace /\ records' = <<>> /\ todo' = {}
    BY <1>1 DEF StartBackup, StartMigration, Begin, Forget
  <2>2. script' = "migrate" \/ pc' \in {"wings", "dead"}
    BY <1>1 DEF StartBackup, StartMigration, Begin
  <2> QED
    BY <2>1, <2>2, ForgetRepeat
<1>2. CASE GetWings \/ WingsRefused
  BY <1>2, WingsRepeat
<1>3. CASE NextWing \/ OpenDrawers \/ CloseDrawers \/ OpenManifest \/ CloseManifest
  BY <1>3, PlaceRepeat
<1>4. CASE GiveUp \/ DrawerGone \/ Killed
  <2>1. Dies
    BY <1>4 DEF GiveUp, DrawerGone, Killed
  <2>2. UNCHANGED palace /\ records' = <<>> /\ pc' = "dead"
    BY <2>1 DEF Dies, Forget
  <2> QED
    BY <2>2, ForgetRepeat
<1>5. CASE \/ ListPage \/ PageRefused \/ GetDrawer \/ AddDrawer \/ AddRefused
           \/ Retry \/ CountError
  <2>1. script \in {"backup", "migrate"}
    BY DEF Inv, TypeInv
  <2>2. CASE script = "migrate"
    BY <1>5, <2>2, MigrateRepeat
  <2>3. CASE script = "backup"
    <3>1. ListPage \/ PageRefused \/ Retry
      BY <1>5, <2>3 DEF GetDrawer, AddDrawer, AddRefused, CountError, LossInv, Scripted
    <3> QED
      BY <2>3, <3>1, ListRepeat, PageRefusedRepeat, RetryRepeat
  <2> QED
    BY <2>1, <2>2, <2>3
<1>6. CASE FetchDrawer \/ FetchRefused \/ SkipWing \/ SkipDrawer
  BY <1>6, FetchRepeat, SkipWingRepeat, SkipDrawerRepeat
<1>7. ASSUME NEW w \in Wings, NEW i \in 1..Len(palace[w]), Delete(w, i) PROVE RepeatInv'
  BY <1>7, DeleteRepeat
<1>8. ASSUME NEW w \in Wings, NEW i \in 1..(Len(palace[w]) + 1), NEW d \in Fresh, Add(w, i, d)
      PROVE  RepeatInv'
  BY <1>8, AddRepeat
<1>9. CASE UNCHANGED vars
  <2>1. UNCHANGED <<palace, script, pc, todo, wing, ids, next, records, env>>
    BY <1>9 DEF vars, local
  <2>2. Tallied' = Tallied
    BY <2>1 DEF Tallied, Waiting, Handled, Ids, Pending, Ahead
  <2>3. Intact' = Intact
    BY <2>1 DEF Intact, Whole, Present
  <2> QED
    BY <2>1, <2>2, <2>3 DEF RepeatInv, Apart, Placed, Recording
<1> QED
  BY <1>1, <1>2, <1>3, <1>4, <1>5, <1>6, <1>7, <1>8, <1>9 DEF Next, Step

\* What waits may be drawers already recorded, but no more of them than places.
LEMMA RepeatSafe == Inv /\ LossInv /\ RepeatInv => RecordsFaithful
<1> SUFFICES ASSUME Inv, LossInv, RepeatInv PROVE RecordsFaithful
  OBVIOUS
<1>1. env.added \in Nat
  BY DEF LossInv, Amounts, Counters
<1>2. Len(records) <= Cardinality(Ids) + env.added
  <2>1. CASE Recording
    <3>1. TypeInv /\ Scripted /\ Tallied /\ script = "backup"
      BY <2>1 DEF Inv, LossInv, RepeatInv, Recording
    <3>2. /\ IsFiniteSet(Ids) /\ IsFiniteSet(Pending) /\ IsFiniteSet(Handled)
          /\ Waiting \in Nat /\ Cardinality(Pending) \in Nat /\ Cardinality(Pending) <= Waiting
          /\ Cardinality(Ids) \in Nat /\ Cardinality(Handled) \in Nat /\ Len(records) \in Nat
      BY <3>1, Handling
    <3>3. Cardinality(Handled) <= Cardinality(Ids) + Cardinality(Pending)
      BY <3>2, Dropping DEF Handled
    <3>4. Cardinality(Handled \cap Ahead) \in Nat
      BY <3>2, AheadOf
    <3>5. Len(records) + Waiting + Cardinality(Handled \cap Ahead) <= Cardinality(Handled) + env.added
      BY <3>1 DEF Tallied
    <3> QED
      BY <1>1, <3>2, <3>3, <3>4, <3>5
  <2>2. CASE ~Recording
    <3>1. script = "migrate" \/ pc \in {"idle", "wings", "dead"}
      BY <2>2 DEF Recording, Inv, TypeInv
    <3>2. records = <<>>
      BY <3>1 DEF RepeatInv, Placed
    <3>3. Len(records) = 0 /\ Ids = {}
      BY <3>2 DEF Ids, ToSet
    <3>4. Cardinality(Ids) = 0
      BY <3>3, FS_EmptySet
    <3> QED
      BY <1>1, <3>3, <3>4
  <2> QED
    BY <2>1, <2>2
<1> QED
  BY <1>2 DEF RecordsFaithful, Ids

\* A snapshot repeats at most one drawer for each addition under its listing,
\* whatever fails, is repeated or is answered with an error: for any number of
\* wings, drawers and pages.
THEOREM Repeats == Spec => []RecordsFaithful
  BY InitLoss, NextLoss, InitRepeat, NextRepeat, RepeatSafe, Invariant, PTL DEF Spec

----------------------------------------------------------------------------
(* What a run that ends well has saved. *)

\* It has dealt with everything it listed, and a record of a drawer that is still
\* there has its content.
LEMMA LossSafe == Inv /\ LossInv /\ RepeatInv => LossBounded
<1> SUFFICES ASSUME Inv, LossInv, RepeatInv, Success, ~env.refused PROVE LossBounded
  BY DEF LossBounded
<1> DEFINE kept   == env.before \cap UNION {ToSet(palace[w]) : w \in Due}
           copied == IF script = "backup" THEN Saved ELSE dest
<1>1. pc = "done" /\ todo = {} /\ Pending = {} /\ Underway
  BY DEF Success, LossInv, Scripted, Pending, Underway
<1>2. Due \subseteq Wings
  BY WingAssumption DEF Due
<1>3. kept \cap Copied \subseteq copied
  <2>1. CASE script = "backup"
    <3>1. disk.drawers = records /\ Whole
      BY <1>1, <2>1 DEF LossInv, Scripted, RepeatInv, Intact
    <3>2. ASSUME NEW d \in kept, d \in Copied PROVE d \in Saved
      <4>1. PICK w \in Due : d \in ToSet(palace[w])
        OBVIOUS
      <4>2. d \in Present
        BY <1>2, <4>1 DEF Present
      <4>3. PICK rec \in ToSet(records) : rec.id = d
        BY <2>1, <3>2 DEF Copied
      <4>4. rec.full
        BY <3>1, <4>2, <4>3 DEF Whole
      <4> QED
        BY <3>1, <4>3, <4>4 DEF Saved
    <3> QED
      BY <2>1, <3>2
  <2>2. CASE script # "backup"
    BY <2>2 DEF Copied
  <2> QED
    BY <2>1, <2>2
<1>4. ASSUME NEW d \in kept \ (copied \cup warned) PROVE d \in Lost
  <2>1. PICK w \in Due : d \in ToSet(palace[w])
    OBVIOUS
  <2>2. w \in Wings /\ palace[w] \in Seq(Drawers)
    BY <1>2, <2>1 DEF Inv, TypeInv
  <2>3. PICK j \in 1..Len(palace[w]) : palace[w][j] = d
    BY <2>1, <2>2, LenProperties DEF ToSet
  <2>4. Missed(w, d)
    BY <1>1, <2>1, <2>3 DEF Missed, Passed
  <2>5. d \notin Copied
    <3> HIDE DEF copied
    <3> QED
      BY <1>3
  <2> QED
    BY <2>2, <2>4, <2>5 DEF Lost
<1>5. IsFiniteSet(Lost) /\ Cardinality(Lost) <= env.deleted /\ env.deleted \in Nat
  BY <1>1 DEF LossInv, Paid, Amounts, Counters
<1> HIDE DEF kept, copied
<1>6. Cardinality(kept \ (copied \cup warned)) <= Cardinality(Lost)
  <2>1. kept \ (copied \cup warned) \subseteq Lost
    BY <1>4
  <2> QED
    BY <1>5, <2>1, FS_Subset
<1>7. Cardinality(kept \ (copied \cup warned)) \in Nat /\ Cardinality(Lost) \in Nat
  <2>1. IsFiniteSet(kept \ (copied \cup warned))
    BY <1>4, <1>5, FS_Subset
  <2> QED
    BY <1>5, <2>1, FS_CardinalityType
<1>8. Cardinality(kept \ (copied \cup warned)) <= env.deleted
  BY <1>5, <1>6, <1>7
<1> QED
  BY <1>8 DEF LossBounded, kept, copied

\* A run that ends well, and was never answered with an error by a tool, has
\* copied with its content or warned of every drawer that was there all along,
\* but for one for each deletion under its listing: for any number of wings,
\* drawers, pages, failed requests, and runs before it that died.
THEOREM Losses == Spec => []LossBounded
  BY InitLoss, NextLoss, InitRepeat, NextRepeat, LossSafe, Invariant, PTL DEF Spec

----------------------------------------------------------------------------
(* A run comes nearer its end with every step. *)

\* What each place of a run has before it.
LEMMA RestValues ==
  ASSUME IsFiniteSet(Wings)
  PROVE  /\ Cardinality(Wings) \in Nat
         /\ Rest["idle"] = 0 /\ Rest["dead"] = 0 /\ Rest["done"] = 0
         /\ Rest["manifest"] = 1 /\ Rest["opening"] = 2 /\ Rest["drawers"] = 3
         /\ Rest["wing"] = 4 /\ Rest["fetch"] = 5 /\ Rest["add"] = 5 /\ Rest["list"] = 6
         /\ Rest["wings"] = 3 * Cardinality(Wings) + 5
<1>1. Cardinality(Wings) \in Nat
  BY FS_CardinalityType
<1> QED
  BY <1>1 DEF Rest

\* The wings still to list are some of the wings.
LEMMA TodoFinite ==
  ASSUME IsFiniteSet(Wings), TypeInv
  PROVE  /\ IsFiniteSet(todo) /\ Cardinality(todo) \in Nat
         /\ Cardinality(todo) <= Cardinality(Wings)
<1>1. todo \subseteq Wings
  BY DEF TypeInv
<1> QED
  BY <1>1, FS_Subset, FS_CardinalityType

\* A step to a place with less before it, whatever the wings still to list.
LEMMA StagesFall ==
  ASSUME IsFiniteSet(Wings), TypeInv, NEW m \in Nat, NEW n \in Nat, n < m,
         Rest[pc] = m, Rest[pc]' = n, UNCHANGED todo
  PROVE  Stages' < Stages
<1>1. Cardinality(todo) \in Nat /\ Cardinality(todo)' = Cardinality(todo)
  BY TodoFinite
<1> QED
  BY <1>1 DEF Stages

\* The wings are listed, and each is taken once.
LEMMA WingNearer ==
  ASSUME IsFiniteSet(Wings), TypeInv, TypeInv', GetWings \/ WingsRefused \/ NextWing
  PROVE  Stages' < Stages
<1>1. /\ Cardinality(todo) \in Nat /\ IsFiniteSet(todo) /\ Cardinality(Wings) \in Nat
      /\ Cardinality(todo)' \in Nat /\ Cardinality(todo)' <= Cardinality(Wings)
  <2>1. /\ IsFiniteSet(todo)' /\ Cardinality(todo)' \in Nat
        /\ Cardinality(todo)' <= Cardinality(Wings)
    <3>1. todo' \subseteq Wings
      BY DEF TypeInv
    <3> QED
      BY <3>1, FS_Subset, FS_CardinalityType
  <2> QED
    BY <2>1, TodoFinite, RestValues
<1>2. CASE GetWings \/ WingsRefused
  <2>1. Rest[pc] = 3 * Cardinality(Wings) + 5 /\ Rest[pc]' = 4
    BY <1>2, RestValues DEF GetWings, WingsRefused
  <2> QED
    BY <1>1, <2>1 DEF Stages
<1>3. CASE NextWing
  <2>1. Rest[pc] = 4 /\ Rest[pc]' = 6
    BY <1>3, RestValues DEF NextWing
  <2>2. Cardinality(todo)' = Cardinality(todo) - 1
    BY <1>1, <1>3, FS_RemoveElement DEF NextWing
  <2> QED
    BY <1>1, <2>1, <2>2 DEF Stages
<1> QED
  BY <1>2, <1>3

\* A page is the last of its wing or brings drawers.
LEMMA ListNearer ==
  ASSUME IsFiniteSet(Wings), Inv, ListPage
  PROVE  \/ Stages' < Stages
         \/ Stages' = Stages /\ Places' < Places
<1> DEFINE got == ids \o Page(wing, Len(ids))
<1>1. /\ pc = "list" /\ ids' = got /\ UNCHANGED <<palace, todo, wing>>
      /\ \/ pc' = After(0, got)
         \/ /\ pc' = "list" /\ Page(wing, Len(ids)) # <<>>
            /\ ~(Len(got) >= Len(palace[wing]))
  BY DEF ListPage
<1>2. wing \in Wings /\ TypeInv
  BY <1>1 DEF Inv, TypeInv, States
<1>3. Len(got) \in Nat /\ Len(ids) \in Nat /\ Len(palace[wing]) \in Nat /\ Len(ids) <= Len(got)
  BY <1>2, PageElements, LenProperties DEF TypeInv
<1>4. CASE pc' = After(0, got)
  <2>1. After(0, got) \in {"fetch", "wing", "done"}
    BY DEF After
  <2>2. Rest[pc] = 6 /\ Rest[pc]' \in {5, 4, 0}
    BY <1>1, <1>4, <2>1, RestValues
  <2> QED
    BY <1>1, <1>2, <2>2, StagesFall
<1>5. CASE pc' = "list" /\ Page(wing, Len(ids)) # <<>> /\ ~(Len(got) >= Len(palace[wing]))
  <2>1. Stages' = Stages
    BY <1>1, <1>5 DEF Stages
  <2>2. Len(ids) # Len(got)
    <3>1. Page(wing, Len(ids)) \in Seq(Drawers) /\ ids \in Seq(Drawers)
      BY <1>2, PageOfDrawers DEF TypeInv
    <3>2. Len(got) = Len(ids) + Len(Page(wing, Len(ids)))
      BY <3>1, ConcatProperties
    <3>3. Len(Page(wing, Len(ids))) \in Nat /\ Len(Page(wing, Len(ids))) # 0
      BY <1>5, <3>1, EmptySeq, LenProperties
    <3> QED
      BY <1>3, <3>2, <3>3
  <2> HIDE DEF got
  <2>3. /\ Places = Len(palace[wing]) - Len(ids)
        /\ Places' = Len(palace[wing]) - Len(got)
    BY <1>1, <1>3, <1>5, <2>2 DEF Places
  <2> QED
    BY <1>3, <2>1, <2>2, <2>3
<1> QED
  BY <1>1, <1>4, <1>5

\* A drawer that is dealt with leaves one less.
LEMMA AdvanceNearer ==
  ASSUME IsFiniteSet(Wings), TypeInv, Advance, pc \in {"fetch", "add"}, UNCHANGED <<todo, ids>>
  PROVE  \/ Stages' < Stages
         \/ Stages' = Stages /\ Places' < Places
<1>1. next \in Nat /\ Len(ids) \in Nat /\ next <= Len(ids)
  BY LenProperties DEF TypeInv, States
<1>2. next' = next + 1 /\ pc' = After(next, ids)
  BY DEF Advance
<1>3. After(next, ids) \in {"fetch", "wing", "done"}
  BY DEF After
<1>4. Rest[pc] = 5
  BY RestValues
<1>5. CASE pc' = "fetch"
  <2>1. Stages' = Stages
    BY <1>4, <1>5, RestValues DEF Stages
  <2>2. Places' = 2 * (Len(ids) + 1 - (next + 1))
    BY <1>2, <1>5 DEF Places
  <2>3. Places \in {2 * (Len(ids) + 1 - next), 2 * (Len(ids) + 1 - next) - 1}
    BY DEF Places
  <2> QED
    BY <1>1, <2>1, <2>2, <2>3
<1>6. CASE pc' \in {"wing", "done"}
  <2>1. Rest[pc]' \in {4, 0}
    BY <1>6, RestValues
  <2> QED
    BY <1>4, <2>1, StagesFall
<1> QED
  BY <1>2, <1>3, <1>5, <1>6

\* A request is repeated on the same place, and not for ever.
LEMMA RetryNearer ==
  ASSUME Inv, Retry
  PROVE  Stages' = Stages /\ Places' = Places /\ Tries' < Tries
<1>1. attempt' = attempt + 1 /\ UNCHANGED <<palace, pc, todo, wing, ids, next>>
  BY DEF Retry
<1>2. attempt \in Nat /\ MaxRetries \in Nat
  BY NumberAssumption DEF Inv, TypeInv
<1>3. Stages' = Stages /\ Places' = Places
  BY <1>1 DEF Stages, Places
<1>4. Tries' < Tries
  BY <1>1, <1>2 DEF Tries
<1> QED
  BY <1>3, <1>4

\* A run that dies has nothing left.
LEMMA DiesNearer ==
  ASSUME IsFiniteSet(Wings), TypeInv, Dies, pc \in {"wings", "list", "fetch"}
  PROVE  Stages' < Stages
<1>1. pc' = "dead" /\ todo' = {}
  BY DEF Dies, Forget
<1>2. Cardinality(todo)' = 0 /\ Cardinality(todo) \in Nat
  BY <1>1, FS_EmptySet, TodoFinite
<1>3. Rest[pc]' = 0 /\ Rest[pc] \in Nat /\ Rest[pc] >= 5
  BY <1>1, RestValues
<1> QED
  BY <1>2, <1>3 DEF Stages

\* The files are written one after the other.
LEMMA FileNearer ==
  ASSUME IsFiniteSet(Wings), TypeInv,
         OpenDrawers \/ CloseDrawers \/ OpenManifest \/ CloseManifest
  PROVE  Stages' < Stages
<1>1. /\ UNCHANGED todo
      /\ \/ pc = "wing" /\ pc' = "drawers"
         \/ pc = "drawers" /\ pc' = "opening"
         \/ pc = "opening" /\ pc' = "manifest"
         \/ pc = "manifest" /\ pc' = "done"
  BY DEF OpenDrawers, CloseDrawers, OpenManifest, CloseManifest, Write
<1> QED
  BY <1>1, StagesFall, RestValues

\* Every step of a run.
LEMMA StepNearer ==
  ASSUME IsFiniteSet(Wings), Inv, Inv', Step
  PROVE  \/ Stages' < Stages
         \/ Stages' = Stages /\ Places' < Places
         \/ Stages' = Stages /\ Places' = Places /\ Tries' < Tries
<1>t. TypeInv /\ TypeInv'
  BY DEF Inv
<1>1. CASE GetWings \/ WingsRefused \/ NextWing
  BY <1>1, <1>t, WingNearer
<1>2. CASE ListPage
  BY <1>2, ListNearer
<1>3. CASE FetchDrawer \/ FetchRefused \/ AddDrawer \/ AddRefused \/ SkipDrawer \/ CountError
  <2>1. Advance /\ pc \in {"fetch", "add"} /\ UNCHANGED <<todo, ids>>
    BY <1>3 DEF FetchDrawer, FetchRefused, AddDrawer, AddRefused, SkipDrawer, CountError
  <2> QED
    BY <2>1, <1>t, AdvanceNearer
<1>4. CASE GetDrawer
  <2>1. pc = "fetch" /\ pc' = "add" /\ UNCHANGED <<todo, ids, next>>
    BY <1>4 DEF GetDrawer
  <2>2. next \in Nat /\ Len(ids) \in Nat
    BY <2>1, <1>t, LenProperties DEF TypeInv, States
  <2>3. Stages' = Stages
    BY <2>1, RestValues DEF Stages
  <2>4. Places = 2 * (Len(ids) + 1 - next) /\ Places' = 2 * (Len(ids) + 1 - next) - 1
    BY <2>1 DEF Places
  <2> QED
    BY <2>2, <2>3, <2>4
<1>5. CASE Retry
  BY <1>5, RetryNearer
<1>6. CASE SkipWing
  <2>1. pc = "list" /\ pc' = "wing" /\ UNCHANGED todo
    BY <1>6 DEF SkipWing
  <2> QED
    BY <2>1, <1>t, StagesFall, RestValues
<1>9. CASE PageRefused
  <2>1. pc = "list" /\ pc' \in {"fetch", "wing", "done"} /\ UNCHANGED todo
    BY <1>9 DEF PageRefused, After
  <2>2. Rest[pc] = 6 /\ Rest[pc]' \in {5, 4, 0}
    BY <2>1, RestValues
  <2> QED
    BY <2>1, <2>2, <1>t, StagesFall
<1>7. CASE GiveUp \/ DrawerGone
  <2>1. Dies /\ pc \in {"wings", "list", "fetch"}
    BY <1>7 DEF GiveUp, DrawerGone
  <2> QED
    BY <2>1, <1>t, DiesNearer
<1>8. CASE OpenDrawers \/ CloseDrawers \/ OpenManifest \/ CloseManifest
  BY <1>8, <1>t, FileNearer
<1> QED
  BY <1>1, <1>2, <1>3, <1>4, <1>5, <1>6, <1>7, <1>8, <1>9 DEF Step

\* A user adds or takes one place of a wing while it is listed.
LEMMA UserPlaces ==
  ASSUME Inv, Amounts, NEW w \in Wings,
         \/ \E i \in 1..Len(palace[w]) : Delete(w, i)
         \/ \E i \in 1..(Len(palace[w]) + 1), d \in Fresh : Add(w, i, d)
  PROVE  /\ Stages' = Stages /\ Tries' = Tries
         /\ Places' <= Places + env'.added - env.added
<1>1. palace \in [Wings -> Seq(Drawers)] /\ palace[w] \in Seq(Drawers) /\ IsInjective(palace[w])
  BY DEF Inv, TypeInv
<1>2. PICK drawers \in Seq(Drawers), field \in {"deleted", "added"} :
         /\ Change(w, drawers, field)
         /\ field = "deleted" => Len(drawers) = Len(palace[w]) - 1
         /\ field = "added" => Len(drawers) = Len(palace[w]) + 1
  <2>1. CASE \E i \in 1..Len(palace[w]) : Delete(w, i)
    <3>1. PICK i \in 1..Len(palace[w]) : Delete(w, i)
      BY <2>1
    <3>2. /\ RemoveAt(palace[w], i) \in Seq(Drawers)
          /\ Len(RemoveAt(palace[w], i)) = Len(palace[w]) - 1
      BY <1>1, Removing
    <3> QED
      BY <3>1, <3>2 DEF Delete
  <2>2. CASE \E i \in 1..(Len(palace[w]) + 1), d \in Fresh : Add(w, i, d)
    <3>1. PICK i \in 1..(Len(palace[w]) + 1), d \in Fresh : Add(w, i, d)
      BY <2>2
    <3>2. d \in Drawers /\ d \notin ToSet(palace[w])
      BY <3>1 DEF Add, Present, Drawers
    <3>3. /\ InsertAt(palace[w], i, d) \in Seq(Drawers)
          /\ Len(InsertAt(palace[w], i, d)) = Len(palace[w]) + 1
      BY <1>1, <3>2, Inserting
    <3> QED
      BY <3>1, <3>3 DEF Add
  <2> QED
    BY <2>1, <2>2
<1>3. /\ palace' = [palace EXCEPT ![w] = drawers]
      /\ UNCHANGED <<pc, todo, wing, ids, next, attempt>>
  BY <1>2 DEF Change, local
<1>4. Stages' = Stages /\ Tries' = Tries
  BY <1>3 DEF Stages, Tries
<1>5. /\ env.added \in Nat /\ env'.added \in Nat /\ env'.added >= env.added
      /\ field = "added" /\ Listing(w) => env'.added = env.added + 1
  <2> DEFINE e1 == [env EXCEPT !.writes = @ + 1]
             k  == IF Listing(w) THEN env[field] + 1 ELSE env[field]
  <2>1. env \in Counters
    BY DEF Amounts
  <2>2. /\ env.added \in Nat /\ e1.added = env.added /\ e1 \in Counters /\ k \in Nat
        /\ field = "added" => k = IF Listing(w) THEN env.added + 1 ELSE env.added
    BY <2>1 DEF Counters
  <2>3. env' = [e1 EXCEPT ![field] = k]
    BY <1>2, <2>1 DEF Change, Counters
  <2> HIDE DEF e1, k
  <2>4. /\ field = "added" => env'.added = k
        /\ field = "deleted" => env'.added = env.added
    BY <2>2, <2>3 DEF Counters
  <2> QED
    BY <2>2, <2>4
<1>6. Len(palace[w]) \in Nat /\ Len(ids) \in Nat
  BY <1>1, LenProperties DEF Inv, TypeInv
<1>7. CASE Listing(w)
  <2>1. /\ pc = "list" /\ pc' = "list" /\ wing = w /\ wing' = w /\ ids' = ids
        /\ palace'[w] = drawers
    BY <1>1, <1>3, <1>7 DEF Listing
  <2>2. /\ Places = IF Len(ids) < Len(palace[w]) THEN Len(palace[w]) - Len(ids) ELSE 0
        /\ Places' = IF Len(ids) < Len(drawers) THEN Len(drawers) - Len(ids) ELSE 0
    BY <2>1 DEF Places
  <2>3. Places' <= Places + env'.added - env.added
    <3>1. CASE field = "added"
      <4>1. Len(drawers) = Len(palace[w]) + 1 /\ env'.added = env.added + 1
        BY <1>2, <1>5, <1>7, <3>1
      <4> QED
        BY <1>5, <1>6, <2>2, <4>1
    <3>2. CASE field = "deleted"
      <4>1. Len(drawers) = Len(palace[w]) - 1
        BY <1>2, <3>2
      <4> QED
        BY <1>5, <1>6, <2>2, <4>1
    <3> QED
      BY <3>1, <3>2
  <2> QED
    BY <1>4, <2>3
<1>8. CASE ~Listing(w)
  <2>1. pc = "list" => wing \in Wings /\ wing # w /\ palace'[wing] = palace[wing]
    BY <1>1, <1>3, <1>8 DEF Listing, Inv, TypeInv, States
  <2>2. Places' = Places
    BY <1>3, <2>1 DEF Places
  <2>3. Places \in Int
    <3>1. CASE pc = "list"
      <4>1. Len(palace[wing]) \in Nat
        BY <1>1, <2>1, <3>1, LenProperties
      <4> QED
        BY <1>6, <3>1, <4>1 DEF Places
    <3>2. CASE pc \in {"fetch", "add"}
      <4>1. next \in Nat
        BY <1>6, <3>2 DEF Inv, TypeInv, States
      <4> QED
        BY <1>6, <3>2, <4>1 DEF Places
    <3>3. CASE pc \notin {"list", "fetch", "add"}
      BY <3>3 DEF Places
    <3> QED
      BY <3>1, <3>2, <3>3
  <2> QED
    BY <1>4, <1>5, <2>2, <2>3
<1> QED
  BY <1>7, <1>8

\* A run comes to its end, whatever fails and is repeated, unless users go on
\* adding drawers to the wing it lists: no step is ever taken in vain.
THEOREM Nearer == ASSUME IsFiniteSet(Wings) PROVE Spec => ComesNearer
<1> DEFINE Move ==
      /\ Step =>
             \/ Stages' < Stages
             \/ Stages' = Stages /\ Places' < Places
             \/ Stages' = Stages /\ Places' = Places /\ Tries' < Tries
      /\ palace' # palace =>
             /\ Stages' = Stages /\ Tries' = Tries
             /\ Places' <= Places + env'.added - env.added
<1>1. Inv /\ LossInv /\ [Next]_vars => [Move]_vars
  <2> SUFFICES ASSUME Inv, LossInv, Next PROVE Move
    BY DEF Move
  <2>1. Inv'
    BY NextInv
  <2>2. ASSUME palace' # palace
        PROVE  /\ Stages' = Stages /\ Tries' = Tries
               /\ Places' <= Places + env'.added - env.added
    <3>1. PICK w \in Wings :
             \/ \E i \in 1..Len(palace[w]) : Delete(w, i)
             \/ \E i \in 1..(Len(palace[w]) + 1), d \in Fresh : Add(w, i, d)
      BY <2>2 DEF Next, Step, StartBackup, StartMigration, Begin, GetWings, NextWing, ListPage,
                  FetchDrawer, GetDrawer, AddDrawer, WingsRefused, PageRefused, FetchRefused,
                  AddRefused, Retry, SkipWing, SkipDrawer, CountError,
                  GiveUp, DrawerGone, Killed, Dies, OpenDrawers, CloseDrawers, OpenManifest,
                  CloseManifest, Write
    <3> QED
      BY <3>1, UserPlaces DEF LossInv
  <2> QED
    BY <2>1, <2>2, StepNearer
<1> QED
  BY <1>1, InitLoss, NextLoss, Invariant, PTL DEF Spec, ComesNearer
=============================================================================
