---------------------- MODULE DesktopProvisioner_proofs ----------------------
(***************************************************************************)
(* Proofs about DesktopProvisioner, for any number of users, requests and    *)
(* instances: whatever fails and however requests overlap, a record leads to *)
(* a desktop of its user with its data volume, and every desktop too many is *)
(* accounted for by a failure or an overlap.                                 *)
(***************************************************************************)
EXTENDS DesktopProvisioner, FiniteSetTheorems, TLAPS

Places ==
    {"idle", "check", "record", "lookup", "launch", "describe", "delete", "start",
     "group", "group_started", "group_new", "add", "add_started", "add_new",
     "wait_started", "update", "wait_new", "volume", "attach"} \cup Replies

\* A request at work on the instance it has launched, or on the one it found.
New(r)      == pc[r] \in {"volume", "attach", "group_new", "add_new", "wait_new"}
Resuming(r) == pc[r] \in {"describe", "start", "group", "group_started", "add",
                          "add_started", "wait_started", "update"}

\* A request at work has its event.
Served ==
    /\ pc \in [Reqs -> Places]
    /\ \A r \in Reqs : Active(r) => user[r] \in Users /\ ip[r] \in Ips

\* What a request works on exists, and is its user's if it launched it.
Targets ==
    \A r \in Reqs :
       /\ New(r) \/ Resuming(r) => target[r] \in Insts /\ state[target[r]] # "unused"
       /\ New(r) => owner[target[r]] = user[r]

\* Nobody else knows of a new instance before it is recorded.
Private ==
    \A r \in Reqs : New(r) =>
       /\ \A q \in Reqs : New(q) /\ target[q] = target[r] => q = r
       /\ \A u \in Users : record[u] # target[r]

\* A new instance on its way to its record has its volume.
Attached ==
    \A r \in Reqs :
       pc[r] \in {"group_new", "add_new", "wait_new"} /\ Alive(target[r])
          => volume[target[r]] = "attached"

\* Recorded instances exist.
Recorded ==
    \A u \in Users : record[u] \in Insts => state[record[u]] # "unused"

\* A user whose requests did not overlap has one at work, and while it resumes a
\* desktop the record it found is there.
Alone ==
    \A r \in Reqs : Active(r) /\ overlaps[user[r]] = 0 =>
       /\ \A q \in Reqs : Active(q) /\ user[q] = user[r] => q = r
       /\ Resuming(r) => record[user[r]] # NoInst

\* The inductive invariant.
IInv ==
    /\ TypeOK /\ Served /\ Targets /\ Private /\ Attached /\ Recorded /\ Alone
    /\ RecordSound

USE DEF Insts, NoInst, Partial, Places, Replies, Active, At, Goto, New, Resuming,
        Alive, Fault

\* The invariant holds before the first request.
LEMMA InitIInv == Init => IInv
  BY NumberAssumption
  DEF Init, IInv, TypeOK, Served, Targets, Private, Attached, Recorded, Alone, RecordSound

\* A request that comes in.
LEMMA PostStep ==
  ASSUME IInv, NEW r \in Reqs, NEW u \in Users, NEW a \in Ips, Post(r, u, a)
  PROVE  IInv'
<1> USE DEF IInv, TypeOK, Served, dynamo, ec2, Post
<1>0. overlaps' \in [Users -> Nat]
  <2>1. overlaps' = [overlaps EXCEPT ![u] = @ + 1] \/ overlaps' = overlaps
    OBVIOUS
  <2> QED
    BY <2>1
<1>1. TypeOK' /\ Served'
  BY <1>0
<1>2. Targets' /\ Private' /\ Attached' /\ Recorded'
  BY DEF Targets, Private, Attached, Recorded
<1>5. Alone
  OBVIOUS
<1>3. Alone'
  <2>1. /\ pc[r] = "idle" /\ pc'[r] = "check" /\ user'[r] = u
        /\ \A q \in Reqs : q # r => pc'[q] = pc[q] /\ user'[q] = user[q]
    OBVIOUS
  <2>2. /\ \A v \in Users : overlaps'[v] = 0 => overlaps[v] = 0
        /\ (\E q \in Reqs : Active(q) /\ user[q] = u) => overlaps'[u] # 0
    OBVIOUS
  <2>3. ~Active(r) /\ Active(r)' /\ ~Resuming(r)'
    BY <2>1
  <2>4. \A q \in Reqs : q # r => (Active(q)' <=> Active(q)) /\ (Resuming(q)' <=> Resuming(q))
    BY <2>1
  <2>5. record' = record
    OBVIOUS
  <2>6. \A q \in Reqs : Active(q) => user[q] \in Users
    OBVIOUS
  <2>7. user'[r] \in Users
    BY <2>1
  <2> HIDE DEF Active, Resuming, Post, IInv, TypeOK, Served, NoInst
  <2>8. ASSUME NEW q \in Reqs, Active(q)', overlaps'[user'[q]] = 0,
               NEW p \in Reqs, Active(p)', user'[p] = user'[q]
        PROVE  p = q
    <3>1. CASE p = r \/ q = r
      BY <2>1, <2>2, <2>4, <2>8, <3>1
    <3>2. CASE p # r /\ q # r
      <4>1. Active(p) /\ Active(q) /\ user[p] = user[q] /\ user[q] \in Users
        BY <2>1, <2>4, <2>6, <2>8, <3>2
      <4>2. overlaps[user[q]] = 0
        BY <2>1, <2>2, <2>8, <3>2, <4>1
      <4> QED
        BY <4>1, <4>2, <1>5 DEF Alone
    <3> QED
      BY <3>1, <3>2
  <2>9. ASSUME NEW q \in Reqs, Active(q)', overlaps'[user'[q]] = 0, Resuming(q)'
        PROVE  record'[user'[q]] # NoInst
    <3>1. q # r
      BY <2>3, <2>9
    <3>2. Active(q) /\ Resuming(q) /\ user'[q] = user[q] /\ user[q] \in Users
      BY <2>1, <2>4, <2>6, <2>9, <3>1
    <3>3. overlaps[user[q]] = 0
      BY <2>2, <2>9, <3>2
    <3> QED
      BY <2>5, <3>2, <3>3, <1>5 DEF Alone
  <2> QED
    BY <2>8, <2>9 DEF Alone
<1>4. RecordSound'
  <2>1. UNCHANGED <<record, state, owner, volume>>
    OBVIOUS
  <2>2. \A v \in Users : overlaps[v] > 0 => overlaps'[v] > 0
    <3>1. overlaps \in [Users -> Nat]
      OBVIOUS
    <3>2. overlaps' = [overlaps EXCEPT ![u] = @ + 1] \/ overlaps' = overlaps
      OBVIOUS
    <3> HIDE DEF IInv, TypeOK, Served, Post
    <3> QED
      BY <3>1, <3>2
  <2>3. RecordSound
    OBVIOUS
  <2> HIDE DEF IInv, TypeOK, Served, Post
  <2> QED
    BY <2>1, <2>2, <2>3 DEF RecordSound
<1> QED
  BY <1>1, <1>2, <1>3, <1>4

\* A user's requests stay one at a time when none starts and no record goes away
\* under a request that resumes a desktop.
LEMMA AloneKept ==
  ASSUME Alone, UNCHANGED event,
         \A q \in Reqs : Active(q)' => Active(q),
         \A q \in Reqs : Resuming(q)' /\ overlaps[user[q]] = 0 => record'[user[q]] # NoInst
  PROVE  Alone'
  BY DEF Alone, event

\* A request that goes on from where it was, and changes nothing else.
LEMMA Moved ==
  ASSUME IInv, NEW r \in Reqs, NEW place \in Places \ {"idle"},
         Active(r), Goto(r, place), UNCHANGED <<record, ec2, event, target>>,
         New(r)' => New(r), Resuming(r)' => Resuming(r),
         pc'[r] \in {"group_new", "add_new", "wait_new"}
            => pc[r] \in {"attach", "group_new", "add_new", "wait_new"},
         pc[r] = "attach" => ~New(r)'
  PROVE  Served' /\ Targets' /\ Private' /\ Attached' /\ Recorded' /\ Alone' /\ RecordSound'
<1> USE DEF IInv, ec2, event
<1>1. /\ pc' = [pc EXCEPT ![r] = place] /\ pc \in [Reqs -> Places]
      /\ \A q \in Reqs : q # r => pc'[q] = pc[q]
  BY DEF Served
<1>2. \A q \in Reqs : Active(q)' => Active(q)
  BY <1>1
<1>3. \A q \in Reqs : Resuming(q)' => Resuming(q)
  BY <1>1
<1>4. \A q \in Reqs : New(q)' => New(q)
  BY <1>1
<1>5. Served'
  BY <1>1, <1>2 DEF Served
<1>6. Targets' /\ Private' /\ Recorded' /\ RecordSound'
  BY <1>3, <1>4 DEF Targets, Private, Recorded, RecordSound
<1>7. Attached'
  BY <1>1 DEF Attached
<1>8. Alone'
  BY <1>2, <1>3, AloneKept DEF Alone
<1> QED
  BY <1>5, <1>6, <1>7, <1>8

\* The rate limit is checked, or recorded.
LEMMA CheckingStep ==
  ASSUME IInv, NEW r \in Reqs, CheckRateLimit(r) \/ RecordRateLimit(r) PROVE IInv'
<1>1. TypeOK'
  <2>1. since' \in [Ips -> 0..RateLimit]
    <3>1. since' = since \/ since' = [since EXCEPT ![ip[r]] = 0]
      BY DEF CheckRateLimit, RecordRateLimit, dynamo
    <3>2. 0 \in 0..RateLimit
      BY NumberAssumption
    <3> QED
      BY <3>1, <3>2 DEF IInv, TypeOK
  <2>2. UNCHANGED <<record, ec2, ingress, event, target, faults>>
    BY DEF CheckRateLimit, RecordRateLimit, dynamo
  <2> QED
    BY <2>1, <2>2 DEF IInv, TypeOK, ec2, event
<1>2. CASE CheckRateLimit(r)
  <2>1. PICK place \in {"429", "record"} : Goto(r, place)
    BY <1>2 DEF CheckRateLimit
  <2> QED
    BY <1>1, <1>2, <2>1, Moved DEF CheckRateLimit, IInv, Served, dynamo
<1>3. CASE RecordRateLimit(r)
  BY <1>1, <1>3, Moved DEF RecordRateLimit, IInv, Served, dynamo
<1> QED
  BY <1>2, <1>3

\* The record is read, in vain, or without finding an instance in it.
LEMMA LookupStep == ASSUME IInv, NEW r \in Reqs, Lookup(r) PROVE IInv'
<1> USE NumberAssumption DEF IInv, TypeOK, Served
<1>1. /\ pc[r] = "lookup" /\ user[r] \in Users /\ record[user[r]] \in {NoInst, Partial} \cup Insts
      /\ UNCHANGED <<since, record, state, owner, volume, ingress, user, ip, overlaps>>
  BY DEF Lookup, dynamo, ec2, event
<1>2. CASE /\ Goto(r, "launch") /\ target' \in [Reqs -> {NoInst} \cup Insts]
           /\ faults' \in [Users -> Nat] /\ \A q \in Reqs : q # r => target'[q] = target[q]
  <2>1. TypeOK' /\ Served'
    BY <1>1, <1>2
  <2>2. Targets' /\ Private' /\ Attached' /\ Recorded' /\ RecordSound'
    BY <1>1, <1>2 DEF Targets, Private, Attached, Recorded, RecordSound
  <2>3. Alone'
    BY <1>1, <1>2, AloneKept DEF Alone, event
  <2> QED
    BY <2>1, <2>2, <2>3
<1>3. CASE record[user[r]] = Partial /\ Goto(r, "failed")
           /\ target' = [target EXCEPT ![r] = NoInst] /\ UNCHANGED faults
  <2>1. TypeOK' /\ Served'
    BY <1>1, <1>3
  <2>2. Targets' /\ Private' /\ Attached' /\ Recorded' /\ RecordSound'
    BY <1>1, <1>3 DEF Targets, Private, Attached, Recorded, RecordSound
  <2>3. Alone'
    BY <1>1, <1>3, AloneKept DEF Alone, event
  <2> QED
    BY <2>1, <2>2, <2>3
<1>4. CASE record[user[r]] \in Insts /\ Goto(r, "describe")
           /\ target' = [target EXCEPT ![r] = record[user[r]]] /\ UNCHANGED faults
  <2>1. TypeOK' /\ Served'
    BY <1>1, <1>4
  <2>2. Targets' /\ Private' /\ Attached' /\ Recorded' /\ RecordSound'
    BY <1>1, <1>4 DEF Targets, Private, Attached, Recorded, RecordSound
  <2>3. Alone'
    BY <1>1, <1>4, AloneKept DEF Alone, event
  <2> QED
    BY <2>1, <2>2, <2>3
<1>5. CASE record[user[r]] = NoInst /\ Goto(r, "launch")
           /\ target' = [target EXCEPT ![r] = NoInst] /\ UNCHANGED faults
  BY <1>1, <1>2, <1>5
<1>6. CASE Fault(r) /\ Goto(r, "launch") /\ UNCHANGED target
  BY <1>1, <1>2, <1>6
<1> QED
  BY <1>1, <1>3, <1>4, <1>5, <1>6 DEF Lookup

\* The instance is asked for its state.
LEMMA DescribeStep == ASSUME IInv, NEW r \in Reqs, Describe(r) PROVE IInv'
<1>1. /\ pc[r] = "describe" /\ Active(r) /\ Resuming(r) /\ ~New(r)
      /\ UNCHANGED <<record, since, ec2, event, ingress, target>>
  BY DEF Describe, dynamo
<1>2. target[r] \in Insts /\ state[target[r]] \in {"pending", "running", "stopping",
                                                   "stopped", "terminated", "gone"}
  BY <1>1 DEF IInv, Targets, TypeOK
<1>3. PICK place \in {"delete", "group", "start", "202", "launch"} : Goto(r, place)
  BY <1>2 DEF Describe, NextOf
<1>4. TypeOK'
  <2>1. UNCHANGED <<dynamo, ec2, ingress, event, target>>
    BY <1>1 DEF Describe
  <2>2. faults' \in [Users -> Nat]
    <3>1. faults' = faults \/ faults' = [faults EXCEPT ![user[r]] = @ + 1]
      BY DEF Describe
    <3> QED
      BY <3>1 DEF IInv, TypeOK
  <2> QED
    BY <2>1, <2>2 DEF IInv, TypeOK, dynamo, ec2, event
<1>5. pc'[r] = place
  BY <1>3 DEF IInv, Served
<1> QED
  BY <1>1, <1>3, <1>4, <1>5, Moved DEF IInv

\* The record of a missing instance is deleted.
LEMMA DeleteStep == ASSUME IInv, NEW r \in Reqs, DeleteRecord(r) PROVE IInv'
<1> USE NumberAssumption DEF IInv, TypeOK, Served, dynamo, ec2, event, DeleteRecord
<1>1. TypeOK' /\ Served'
  OBVIOUS
<1>2. Targets'
  BY DEF Targets
<1>3. Private' /\ Attached' /\ Recorded'
  BY DEF Private, Attached, Recorded, Targets
<1>4. Alone'
  BY DEF Alone
<1>5. RecordSound'
  BY DEF RecordSound
<1> QED
  BY <1>1, <1>2, <1>3, <1>4, <1>5

\* A stopped instance is started, or refuses to.
LEMMA StartStep == ASSUME IInv, NEW r \in Reqs, StartInstance(r) PROVE IInv'
<1> USE NumberAssumption DEF IInv, TypeOK, Served, dynamo, ec2, event, StartInstance
<1>1. TypeOK' /\ Served'
  BY DEF Targets
<1>2. Targets'
  BY DEF Targets
<1>3. Private' /\ Attached' /\ Recorded'
  BY DEF Private, Attached, Recorded, Targets
<1>4. Alone'
  BY DEF Alone
<1>5. RecordSound'
  BY DEF RecordSound, Targets
<1> QED
  BY <1>1, <1>2, <1>3, <1>4, <1>5

\* The security group is read, changed, or refuses a rule.
LEMMA GroupStep ==
  ASSUME IInv, NEW r \in Reqs, ReadGroup(r) \/ AddToGroup(r) \/ AddDuplicate(r)
  PROVE  IInv'
<1>1. /\ Active(r) /\ user[r] \in Users /\ ip[r] \in Ips
      /\ UNCHANGED <<record, since, ec2, event, target>>
  BY DEF ReadGroup, AddToGroup, AddDuplicate, InGroup, IInv, Served, dynamo
<1>2. TypeOK'
  <2>1. ingress' \subseteq Ips /\ faults' \in [Users -> Nat]
    BY <1>1 DEF ReadGroup, AddToGroup, AddDuplicate, IInv, TypeOK
  <2> QED
    BY <1>1, <2>1 DEF IInv, TypeOK, ec2, event
<1>3. CASE pc[r] \in {"group", "add"}
  <2>1. PICK place \in {"add", "200", "failed"} : Goto(r, place)
    BY <1>3 DEF ReadGroup, AddToGroup, AddDuplicate, InGroup, After
  <2> QED
    BY <1>1, <1>2, <1>3, <2>1, Moved DEF IInv, Served
<1>4. CASE pc[r] \in {"group_started", "add_started"}
  <2>1. PICK place \in {"add_started", "wait_started", "failed"} : Goto(r, place)
    BY <1>4 DEF ReadGroup, AddToGroup, AddDuplicate, InGroup, After
  <2> QED
    BY <1>1, <1>2, <1>4, <2>1, Moved DEF IInv, Served
<1>5. CASE pc[r] \in {"group_new", "add_new"}
  <2>1. PICK place \in {"add_new", "wait_new", "failed"} : Goto(r, place)
    BY <1>5 DEF ReadGroup, AddToGroup, AddDuplicate, InGroup, After
  <2> QED
    BY <1>1, <1>2, <1>5, <2>1, Moved DEF IInv, Served
<1> QED
  BY <1>3, <1>4, <1>5 DEF ReadGroup, AddToGroup, AddDuplicate, InGroup

\* A resumed desktop is noted in its record, or creates one without instance_id.
LEMMA WaitStep ==
  ASSUME IInv, NEW r \in Reqs, WaitStarted(r) \/ UpdateItem(r) PROVE IInv'
<1> USE DEF IInv, TypeOK, Served
<1>1. /\ pc[r] \in {"wait_started", "update"} /\ Resuming(r) /\ user[r] \in Users
      /\ UNCHANGED <<since, state, owner, volume, ingress, user, ip, overlaps, target, faults>>
  BY DEF WaitStarted, UpdateItem, dynamo, ec2, event
<1>2. CASE Goto(r, "200") /\ record' = [record EXCEPT ![user[r]] = IF @ = NoInst THEN Partial ELSE @]
  <2>1. TypeOK' /\ Served'
    BY <1>1, <1>2
  <2>2. \A u \in Users : record'[u] = record[u] \/ (u = user[r] /\ record[u] = NoInst /\ record'[u] = Partial)
    BY <1>1, <1>2
  <2>0. \A q \in Reqs : /\ Active(q)' => Active(q)
                        /\ New(q)' => New(q)
                        /\ Resuming(q)' => Resuming(q)
    BY <1>1, <1>2
  <2>9. \A q \in Reqs : pc'[q] \in {"group_new", "add_new", "wait_new"} => pc'[q] = pc[q]
    BY <1>1, <1>2
  <2>3. Targets' /\ Attached'
    <3>1. Targets'
      <4> HIDE DEF New, Resuming
      <4> QED
        BY <1>1, <2>0 DEF Targets
    <3>2. Attached'
      BY <1>1, <2>9 DEF Attached
    <3> QED
      BY <3>1, <3>2
  <2>4. Recorded' /\ \A u \in Users : record'[u] \in Insts => record'[u] = record[u]
    <3>1. \A u \in Users : record'[u] \in Insts => record'[u] = record[u]
      BY <2>2, NumberAssumption
    <3>2. Recorded /\ state' = state
      BY <1>1
    <3> HIDE DEF Insts, IInv, TypeOK, Served
    <3> QED
      BY <3>1, <3>2 DEF Recorded
  <2>5. Private'
    BY <1>1, <1>2, <2>4 DEF Private, Targets
  <2>6. Alone'
    <3>1. \A q \in Reqs : Resuming(q) /\ overlaps[user[q]] = 0 => record[user[q]] # NoInst
      BY DEF Alone
    <3>2. \A u \in Users : record[u] # NoInst => record'[u] # NoInst
      BY <2>2
    <3>3. \A q \in Reqs : Resuming(q) => user[q] \in Users
      OBVIOUS
    <3>4. \A q \in Reqs : Resuming(q)' /\ overlaps[user[q]] = 0 => record'[user[q]] # NoInst
      <4> HIDE DEF Resuming, NoInst
      <4> QED
        BY <2>0, <3>1, <3>2, <3>3
    <3> HIDE DEF Resuming, Active, NoInst
    <3> QED
      BY <1>1, <2>0, <3>4, AloneKept DEF event
  <2>7. record[user[r]] = NoInst => overlaps[user[r]] > 0
    <3>1. Active(r) /\ overlaps[user[r]] \in Nat
      BY <1>1
    <3>2. Alone
      OBVIOUS
    <3> HIDE DEF Active, Resuming, IInv, TypeOK, Served
    <3> QED
      BY <1>1, <3>1, <3>2 DEF Alone
  <2>8. RecordSound'
    <3>1. ASSUME NEW u \in Users, record'[u] \in Insts PROVE record'[u] = record[u]
      BY <2>4, <3>1
    <3>2. ASSUME NEW u \in Users, record'[u] = Partial PROVE overlaps[u] > 0
      BY <1>1, <2>2, <2>7, <3>2 DEF RecordSound
    <3> QED
      BY <1>1, <3>1, <3>2 DEF RecordSound
  <2> QED
    BY <2>1, <2>3, <2>4, <2>5, <2>6, <2>8
<1>3. CASE WaitStarted(r)
  <2>1. PICK place \in {"update", "202"} : Goto(r, place) /\ UNCHANGED record
    BY <1>3 DEF WaitStarted, dynamo
  <2>2. TypeOK'
    BY <1>1, <2>1
  <2> QED
    BY <1>1, <2>1, <2>2, Moved DEF ec2, event
<1> QED
  BY <1>2, <1>3 DEF UpdateItem

\* An instance nobody knew of is launched.
LEMMA RunStep == ASSUME IInv, NEW r \in Reqs, RunInstance(r) PROVE IInv'
<1> USE NumberAssumption DEF IInv, TypeOK, Served, dynamo, ec2, event
<1>1. PICK i \in Fresh : /\ state' = [state EXCEPT ![i] = "pending"]
                         /\ owner' = [owner EXCEPT ![i] = user[r]]
                         /\ target' = [target EXCEPT ![r] = i]
  BY DEF RunInstance
<1>2. i \in Insts /\ state[i] = "unused"
  BY <1>1 DEF Fresh
<1>3. /\ pc[r] = "launch" /\ pc' = [pc EXCEPT ![r] = "volume"]
      /\ UNCHANGED <<since, record, volume, ingress, user, ip, overlaps, faults>>
  BY DEF RunInstance
<1>4. TypeOK' /\ Served'
  BY <1>1, <1>2, <1>3
<1>5. Targets'
  BY <1>1, <1>2, <1>3 DEF Targets
<1>6. Private'
  <2>1. \A q \in Reqs : q # r => target'[q] = target[q] /\ (New(q)' <=> New(q))
    BY <1>1, <1>3
  <2>2. \A q \in Reqs : New(q) => target[q] # i
    BY <1>2 DEF Targets
  <2>3. \A u \in Users : record'[u] # i
    BY <1>2, <1>3 DEF Recorded
  <2>4. target'[r] = i
    BY <1>1
  <2> QED
    BY <1>3, <2>1, <2>2, <2>3, <2>4 DEF Private
<1>7. Attached' /\ Recorded'
  BY <1>1, <1>2, <1>3 DEF Attached, Recorded, Targets
<1>8. Alone'
  BY <1>1, <1>2, <1>3 DEF Alone
<1>9. RecordSound'
  BY <1>1, <1>2, <1>3 DEF RecordSound, Recorded
<1> QED
  BY <1>4, <1>5, <1>6, <1>7, <1>8, <1>9

\* The new instance gets its volume.
LEMMA EquipStep == ASSUME IInv, NEW r \in Reqs, CreateVolume(r) \/ AttachVolume(r) PROVE IInv'
<1> USE DEF IInv, Served
<1>1. /\ pc[r] \in {"volume", "attach"} /\ New(r) /\ Active(r) /\ target[r] \in Insts
      /\ UNCHANGED <<record, since, state, owner, ingress, user, ip, overlaps, target, faults>>
  BY DEF CreateVolume, AttachVolume, dynamo, event, Targets
<1>2. PICK has \in {"loose", "attached"} : volume' = [volume EXCEPT ![target[r]] = has]
  BY DEF CreateVolume, AttachVolume
<1>3. PICK place \in {"attach", "group_new"} :
         Goto(r, place) /\ (place = "group_new" => volume' = [volume EXCEPT ![target[r]] = "attached"])
  BY DEF CreateVolume, AttachVolume
<1>4. \A q \in Reqs : (New(q)' <=> New(q)) /\ (Active(q)' <=> Active(q)) /\ (Resuming(q)' <=> Resuming(q))
  BY <1>1, <1>3
<1>5. TypeOK' /\ Served'
  BY <1>1, <1>2, <1>3 DEF TypeOK
<1>6. Targets' /\ Private' /\ Recorded'
  BY <1>1, <1>4 DEF Targets, Private, Recorded
<1>7. Attached'
  <2>1. \A q \in Reqs : q # r /\ New(q) => volume'[target[q]] = volume[target[q]]
    BY <1>1, <1>2 DEF Private, TypeOK
  <2>2. \A q \in Reqs : q # r => pc'[q] = pc[q]
    BY <1>3
  <2>3. pc'[r] = "group_new" => volume'[target[r]] = "attached"
    BY <1>1, <1>3 DEF TypeOK
  <2>4. pc'[r] \in {"attach", "group_new"}
    BY <1>3
  <2> QED
    BY <1>1, <2>1, <2>2, <2>3, <2>4 DEF Attached
<1>8. Alone'
  BY <1>1, <1>4, AloneKept DEF Alone, event
<1>9. RecordSound'
  <2>1. \A u \in Users : record[u] \in Insts => volume'[record[u]] = volume[record[u]]
    BY <1>1, <1>2 DEF Private, TypeOK
  <2> QED
    BY <1>1, <2>1 DEF RecordSound
<1> QED
  BY <1>5, <1>6, <1>7, <1>8, <1>9

\* The new desktop is recorded.
LEMMA PutStep == ASSUME IInv, NEW r \in Reqs, PutItem(r) PROVE IInv'
<1> USE DEF IInv, Served
<1>1. /\ pc[r] = "wait_new" /\ New(r) /\ Active(r) /\ user[r] \in Users /\ target[r] \in Insts
      /\ record' = [record EXCEPT ![user[r]] = target[r]]
      /\ UNCHANGED <<since, state, owner, volume, ingress, user, ip, overlaps, target, faults>>
  BY DEF PutItem, ec2, event, Targets
<1>2. PICK place \in {"201", "202"} : Goto(r, place)
  BY DEF PutItem
<1>3. \A u \in Users : record'[u] = record[u] \/ (u = user[r] /\ record'[u] = target[r])
  BY <1>1 DEF TypeOK
<1>4. /\ \A q \in Reqs : q # r => pc'[q] = pc[q]
      /\ ~New(r)' /\ ~Resuming(r)' /\ ~Active(r)'
  BY <1>2
<1>5. TypeOK' /\ Served'
  BY <1>1, <1>2 DEF TypeOK
<1>6. Targets' /\ Attached'
  BY <1>1, <1>4 DEF Targets, Attached
<1>7. Private'
  BY <1>1, <1>3, <1>4 DEF Private
<1>8. Recorded'
  BY <1>1, <1>3 DEF Recorded, Targets
<1>9. Alone'
  <2>1. \A q \in Reqs : Resuming(q)' /\ overlaps[user[q]] = 0 => record'[user[q]] # NoInst
    BY <1>1, <1>3, <1>4 DEF Alone
  <2> QED
    BY <1>1, <1>4, <2>1, AloneKept DEF event
<1>10. RecordSound'
  BY <1>1, <1>3 DEF RecordSound, Targets, Attached
<1> QED
  BY <1>5, <1>6, <1>7, <1>8, <1>9, <1>10

\* A request fails and leaves everything as it is.
LEMMA DiesStep == ASSUME IInv, NEW r \in Reqs, Dies(r) PROVE IInv'
<1> USE NumberAssumption DEF IInv, TypeOK, Served, dynamo, ec2, event, Dies
<1>1. TypeOK' /\ Served'
  OBVIOUS
<1>2. Targets' /\ Private' /\ Attached' /\ Recorded'
  BY DEF Targets, Private, Attached, Recorded
<1>3. Alone'
  BY DEF Alone
<1>4. RecordSound'
  BY DEF RecordSound
<1> QED
  BY <1>1, <1>2, <1>3, <1>4

\* What happens to an instance beside the requests.
WorldStep(i) == Boot(i) \/ IdleStop(i) \/ Stopped(i) \/ Forget(i) \/ Interrupt(i)

\* EC2 and the idle check change the state of an instance.
LEMMA WorldSteps == ASSUME IInv, NEW i \in Insts, WorldStep(i) PROVE IInv'
<1> USE NumberAssumption DEF IInv, TypeOK, Served, dynamo, ec2, event, WorldStep, Boot, IdleStop, Stopped, Forget, Becomes, Interrupt
<1>1. TypeOK' /\ Served'
  OBVIOUS
<1>2. Targets' /\ Private' /\ Recorded'
  BY DEF Targets, Private, Recorded
<1>3. Attached'
  BY DEF Attached, Targets
<1>4. Alone'
  BY DEF Alone
<1>5. RecordSound'
  BY DEF RecordSound
<1> QED
  BY <1>1, <1>2, <1>3, <1>4, <1>5

\* Every step keeps the invariant.
LEMMA StepIInv == ASSUME IInv, [Next]_vars PROVE IInv'
<1>1. CASE Tick
  <2>1. since' \in [Ips -> 0..RateLimit]
    BY <1>1, NumberAssumption DEF Tick, IInv, TypeOK
  <2>2. UNCHANGED <<record, ec2, ingress, pc, event, target, faults>>
    BY <1>1 DEF Tick
  <2> QED
    BY <2>1, <2>2 DEF IInv, TypeOK, Served, Targets, Private, Attached, Recorded, Alone,
                      RecordSound, ec2, event
<1>2. ASSUME NEW r \in Reqs, NEW u \in Users, NEW a \in Ips, Post(r, u, a) PROVE IInv'
  BY <1>2, PostStep
<1>3. ASSUME NEW r \in Reqs, Step(r) PROVE IInv'
  BY <1>3, CheckingStep, LookupStep, DescribeStep, DeleteStep, StartStep, GroupStep,
     WaitStep, RunStep, EquipStep, PutStep, DiesStep DEF Step
<1>4. ASSUME NEW i \in Insts, WorldStep(i) PROVE IInv'
  BY <1>4, WorldSteps
<1>5. CASE UNCHANGED vars
  BY <1>5 DEF vars, IInv, TypeOK, Served, Targets, Private, Attached, Recorded, Alone,
              RecordSound, ec2, event, dynamo
<1> QED
  BY <1>1, <1>2, <1>3, <1>4, <1>5 DEF Next, WorldStep

\* The invariant holds in every state.
THEOREM Invariance == Spec => []IInv
<1>1. IInv /\ [Next]_vars => IInv'
  BY StepIInv
<1> QED
  BY <1>1, InitIInv, PTL DEF Spec

\* The variables keep their types.
THEOREM Types == Spec => []TypeOK
<1>1. IInv => TypeOK
  BY DEF IInv
<1> QED
  BY <1>1, Invariance, PTL

\* Whatever fails, a record leads to a desktop of its user with its volume, and
\* one without instance_id comes only of requests that overlap.
THEOREM Records == Spec => []RecordSound
<1>1. IInv => RecordSound
  BY DEF IInv
<1> QED
  BY <1>1, Invariance, PTL

----------------------------------------------------------------------------
(* The account of a user: desktops that nothing leads to, and requests at     *)
(* work, against failures and overlaps.                                      *)

\* An instance found through a record is its user's, and no request has just
\* launched it.
Owned ==
    \A r \in Reqs : Resuming(r) =>
       /\ owner[target[r]] = user[r]
       /\ \A q \in Reqs : New(q) => target[q] # target[r]

Acts(u)    == {r \in Reqs : Active(r) /\ user[r] = u}
Orphans(u) == {i \in Mine(u) : record[u] # i /\ \A q \in Reqs : New(q) => target[q] # i}
Kept(u)    == record[u] \in Insts /\ Alive(record[u])

\* About to delete the record, which may lead to another instance by now.
Undoing(r) ==
    \/ pc[r] = "delete"
    \/ pc[r] = "describe" /\ target[r] # record[user[r]] /\ ~Alive(target[r])

Launching(r) == pc[r] = "launch" \/ New(r) \/ Undoing(r)

\* One request may be at work free of charge: it will find the desktop there is,
\* or there is none.
Covered(u) ==
    \/ ~Kept(u)
    \/ (\E r \in Acts(u) : ~Launching(r)) /\ \A r \in Acts(u) : ~Undoing(r)

Grant(u) == IF Acts(u) # {} /\ Covered(u) THEN 1 ELSE 0

Account(u) ==
    /\ IsFiniteSet(Acts(u)) /\ IsFiniteSet(Orphans(u))
    /\ Cardinality(Orphans(u)) + Cardinality(Acts(u)) <= faults[u] + overlaps[u] + Grant(u)

Ledger == Owned /\ \A u \in Users : Account(u)

\* A set that gains at most one element.
LEMMA GainsOne ==
  ASSUME NEW S, IsFiniteSet(S), NEW T, NEW x, T \subseteq S \cup {x}
  PROVE  /\ IsFiniteSet(T) /\ Cardinality(T) \in Nat /\ Cardinality(S) \in Nat
         /\ Cardinality(T) <= Cardinality(S) + 1
<1>1. IsFiniteSet(S \cup {x}) /\ Cardinality(S \cup {x}) <= Cardinality(S) + 1
  <2>1. Cardinality(S) \in Nat
    BY FS_CardinalityType
  <2> QED
    BY <2>1, FS_AddElement
<1>2. IsFiniteSet(T) /\ Cardinality(T) <= Cardinality(S \cup {x})
  BY <1>1, FS_Subset
<1>3. Cardinality(T) \in Nat /\ Cardinality(S) \in Nat /\ Cardinality(S \cup {x}) \in Nat
  BY <1>1, <1>2, FS_CardinalityType
<1> QED
  BY <1>1, <1>2, <1>3

\* A set that gains nothing.
LEMMA GainsNone ==
  ASSUME NEW S, IsFiniteSet(S), NEW T, T \subseteq S
  PROVE  /\ IsFiniteSet(T) /\ Cardinality(T) \in Nat /\ Cardinality(S) \in Nat
         /\ Cardinality(T) <= Cardinality(S)
  BY FS_Subset, FS_CardinalityType

\* Two sets together have no more elements than each has.
LEMMA JoinsSets ==
  ASSUME NEW S, NEW T, IsFiniteSet(S), IsFiniteSet(T)
  PROVE  /\ IsFiniteSet(S \cup T)
         /\ Cardinality(S \cup T) <= Cardinality(S) + Cardinality(T)
<1>1. IsFiniteSet(S \cap T)
  BY FS_Subset
<1>2. /\ Cardinality(S) \in Nat /\ Cardinality(T) \in Nat /\ Cardinality(S \cap T) \in Nat
  BY <1>1, FS_CardinalityType
<1>3. /\ IsFiniteSet(S \cup T)
      /\ Cardinality(S \cup T) = Cardinality(S) + Cardinality(T) - Cardinality(S \cap T)
  BY FS_Union
<1> QED
  BY <1>2, <1>3

\* A set that loses an element.
LEMMA LosesOne ==
  ASSUME NEW S, IsFiniteSet(S), NEW T, NEW x \in S, T \subseteq S \ {x}
  PROVE  /\ IsFiniteSet(T) /\ Cardinality(T) \in Nat /\ Cardinality(S) \in Nat
         /\ Cardinality(T) <= Cardinality(S) - 1
<1>1. IsFiniteSet(S \ {x}) /\ Cardinality(S \ {x}) = Cardinality(S) - 1
  BY FS_RemoveElement
<1>2. IsFiniteSet(T) /\ Cardinality(T) <= Cardinality(S \ {x})
  BY <1>1, FS_Subset
<1> QED
  BY <1>1, <1>2, FS_CardinalityType

\* The amounts of an account are numbers.
Numbers(u) == faults[u] \in Nat /\ overlaps[u] \in Nat

\* A step that starts and ends no request of u, and orphans no desktop, leaves
\* the account in order if it costs no grant or if it pays for it.
LEMMA Calm ==
  ASSUME NEW u, Numbers(u), Numbers(u)', Account(u),
         Acts(u)' = Acts(u), (Orphans(u))' \subseteq Orphans(u), overlaps'[u] = overlaps[u],
         \/ faults'[u] = faults[u] /\ (Covered(u) => Covered(u)')
         \/ faults'[u] = faults[u] + 1
  PROVE  Account(u)'
  BY GainsNone DEF Account, Grant, Numbers

\* A request that ends, and leaves nothing behind.
LEMMA Leaves ==
  ASSUME NEW u, Numbers(u), Numbers(u)', Account(u), NEW r \in Acts(u),
         Acts(u)' = Acts(u) \ {r}, (Orphans(u))' \subseteq Orphans(u),
         overlaps'[u] = overlaps[u], faults'[u] = faults[u]
  PROVE  Account(u)'
<1>1. /\ IsFiniteSet(Orphans(u)') /\ Cardinality(Orphans(u)') \in Nat /\ Cardinality(Orphans(u)) \in Nat
      /\ Cardinality(Orphans(u)') <= Cardinality(Orphans(u))
  BY GainsNone DEF Account
<1>2. /\ IsFiniteSet(Acts(u)') /\ Cardinality(Acts(u)') \in Nat /\ Cardinality(Acts(u)) \in Nat
      /\ Cardinality(Acts(u)') <= Cardinality(Acts(u)) - 1
  BY LosesOne DEF Account
<1> QED
  BY <1>1, <1>2 DEF Account, Grant, Numbers

\* A request that fails, and may leave an instance behind.
LEMMA Fails ==
  ASSUME NEW u, Numbers(u), Numbers(u)', Account(u), NEW r \in Acts(u), NEW i,
         Acts(u)' = Acts(u) \ {r}, (Orphans(u))' \subseteq Orphans(u) \cup {i},
         overlaps'[u] = overlaps[u], faults'[u] = faults[u] + 1
  PROVE  Account(u)'
<1>1. /\ IsFiniteSet(Orphans(u)') /\ Cardinality(Orphans(u)') \in Nat /\ Cardinality(Orphans(u)) \in Nat
      /\ Cardinality(Orphans(u)') <= Cardinality(Orphans(u)) + 1
  BY GainsOne DEF Account
<1>2. /\ IsFiniteSet(Acts(u)') /\ Cardinality(Acts(u)') \in Nat /\ Cardinality(Acts(u)) \in Nat
      /\ Cardinality(Acts(u)') <= Cardinality(Acts(u)) - 1
  BY LosesOne DEF Account
<1> QED
  BY <1>1, <1>2 DEF Account, Grant, Numbers

\* A record that is deleted orphans its instance, and covers a request.
LEMMA Uncovers ==
  ASSUME NEW u, Numbers(u), Numbers(u)', Account(u), NEW i, Acts(u) # {},
         Acts(u)' = Acts(u), (Orphans(u))' \subseteq Orphans(u) \cup {i},
         overlaps'[u] = overlaps[u], faults'[u] = faults[u], ~Covered(u), Covered(u)'
  PROVE  Account(u)'
<1>1. /\ IsFiniteSet(Orphans(u)') /\ Cardinality(Orphans(u)') \in Nat /\ Cardinality(Orphans(u)) \in Nat
      /\ Cardinality(Orphans(u)') <= Cardinality(Orphans(u)) + 1
  BY GainsOne DEF Account
<1>2. /\ IsFiniteSet(Acts(u)') /\ Cardinality(Acts(u)') \in Nat /\ Cardinality(Acts(u)) \in Nat
      /\ Cardinality(Acts(u)') <= Cardinality(Acts(u))
  BY GainsNone DEF Account
<1> QED
  BY <1>1, <1>2 DEF Account, Grant, Numbers

\* A request that ends with a desktop in the place of the one recorded.
LEMMA Replaces ==
  ASSUME NEW u, Numbers(u), Numbers(u)', Account(u), NEW r \in Acts(u), NEW i,
         Acts(u)' = Acts(u) \ {r}, (Orphans(u))' \subseteq Orphans(u) \cup {i},
         overlaps'[u] = overlaps[u], faults'[u] = faults[u],
         Covered(u) => Covered(u)' /\ Acts(u)' # {}
  PROVE  Account(u)'
<1>1. /\ IsFiniteSet(Orphans(u)') /\ Cardinality(Orphans(u)') \in Nat /\ Cardinality(Orphans(u)) \in Nat
      /\ Cardinality(Orphans(u)') <= Cardinality(Orphans(u)) + 1
  BY GainsOne DEF Account
<1>2. /\ IsFiniteSet(Acts(u)') /\ Cardinality(Acts(u)') \in Nat /\ Cardinality(Acts(u)) \in Nat
      /\ Cardinality(Acts(u)') <= Cardinality(Acts(u)) - 1
  BY LosesOne DEF Account
<1> QED
  BY <1>1, <1>2 DEF Account, Grant, Numbers

\* An orphan that is interrupted pays for what it uncovers.
LEMMA Lost ==
  ASSUME NEW u, Numbers(u), Numbers(u)', Account(u), NEW i \in Orphans(u),
         Acts(u)' = Acts(u), (Orphans(u))' \subseteq Orphans(u) \ {i},
         overlaps'[u] = overlaps[u], faults'[u] = faults[u]
  PROVE  Account(u)'
<1>1. /\ IsFiniteSet(Orphans(u)') /\ Cardinality(Orphans(u)') \in Nat /\ Cardinality(Orphans(u)) \in Nat
      /\ Cardinality(Orphans(u)') <= Cardinality(Orphans(u)) - 1
  BY LosesOne DEF Account
<1>2. /\ IsFiniteSet(Acts(u)') /\ Cardinality(Acts(u)') \in Nat /\ Cardinality(Acts(u)) \in Nat
      /\ Cardinality(Acts(u)') <= Cardinality(Acts(u))
  BY GainsNone DEF Account
<1> QED
  BY <1>1, <1>2 DEF Account, Grant, Numbers

\* A request that comes in, beside others at its own charge.
LEMMA Joins ==
  ASSUME NEW u, Numbers(u), Numbers(u)', Account(u), NEW r,
         Acts(u)' = Acts(u) \cup {r}, (Orphans(u))' \subseteq Orphans(u),
         faults'[u] = faults[u],
         \/ Acts(u) = {} /\ overlaps'[u] = overlaps[u] /\ Covered(u)'
         \/ Acts(u) # {} /\ overlaps'[u] = overlaps[u] + 1 /\ (Covered(u) => Covered(u)')
  PROVE  Account(u)'
<1>1. Acts(u)' # {} /\ Cardinality(Acts(u))' <= Cardinality(Acts(u)) + 1
      /\ IsFiniteSet(Acts(u)') /\ Cardinality(Acts(u)') \in Nat /\ Cardinality(Acts(u)) \in Nat
  BY GainsOne DEF Account
<1>2. IsFiniteSet(Orphans(u)') /\ Cardinality(Orphans(u)') <= Cardinality(Orphans(u))
      /\ Cardinality(Orphans(u)') \in Nat /\ Cardinality(Orphans(u)) \in Nat
  BY GainsNone DEF Account
<1> QED
  BY <1>1, <1>2 DEF Account, Grant, Numbers

\* A request takes a step: nobody else's request, record or failures change, and
\* no instance comes up or goes down.
Moves(r) ==
    /\ UNCHANGED event /\ owner' = owner
    /\ \A i \in Insts : Alive(i)' <=> Alive(i)
    /\ \A q \in Reqs : q # r => pc'[q] = pc[q] /\ target'[q] = target[q]
    /\ \A w \in Users : w # user[r] => record'[w] = record[w] /\ faults'[w] = faults[w]

\* The amounts of the accounts are numbers.
LEMMA Counted == ASSUME IInv, IInv' PROVE \A u \in Users : Numbers(u) /\ Numbers(u)'
  BY DEF IInv, TypeOK, Numbers

\* An instance found stays a user's own when requests only go on.
LEMMA OwnedKept ==
  ASSUME Owned, user' = user, owner' = owner,
         \A q \in Reqs : Resuming(q)' => Resuming(q) /\ target'[q] = target[q],
         \A q \in Reqs : New(q)' => New(q) /\ target'[q] = target[q]
  PROVE  Owned'
  BY DEF Owned

\* The accounts of the other users stay as they are.
LEMMA OthersKept ==
  ASSUME IInv, IInv', Ledger, NEW r \in Reqs, Active(r), Moves(r),
         NEW w \in Users, w # user[r]
  PROVE  Account(w)'
<1>1. /\ user' = user /\ overlaps' = overlaps /\ owner' = owner
      /\ \A i \in Insts : Alive(i)' <=> Alive(i)
      /\ \A q \in Reqs : q # r => pc'[q] = pc[q] /\ target'[q] = target[q]
      /\ record'[w] = record[w] /\ faults'[w] = faults[w]
  BY DEF Moves, event
<1>2. Acts(w)' = Acts(w)
  BY <1>1 DEF Acts
<1>3. Orphans(w)' \subseteq Orphans(w)
  <2>1. \A i \in Insts : owner[i] = w => ~(New(r) /\ target[r] = i)
    BY DEF IInv, Targets
  <2>2. Mine(w)' = Mine(w) /\ \A i \in Mine(w) : i \in Insts /\ owner[i] = w
    BY <1>1 DEF Mine
  <2>3. ASSUME NEW i \in Mine(w), NEW q \in Reqs, New(q), target[q] = i
        PROVE  New(q)' /\ target'[q] = i
    BY <1>1, <2>1, <2>2, <2>3
  <2> QED
    BY <1>1, <2>2, <2>3 DEF Orphans
<1>4. Covered(w) => Covered(w)'
  <2>1. Kept(w)' <=> Kept(w)
    BY <1>1 DEF Kept
  <2>2. ASSUME NEW q \in Acts(w)
        PROVE  (Undoing(q)' => Undoing(q)) /\ (Launching(q)' => Launching(q))
    <3>1. q \in Reqs /\ q # r /\ user[q] = w /\ Active(q)
      BY DEF Acts
    <3>2. pc[q] = "describe" => target[q] \in Insts
      BY <3>1 DEF IInv, Targets
    <3> QED
      BY <1>1, <3>1, <3>2 DEF Undoing, Launching
  <2> QED
    BY <1>2, <2>1, <2>2 DEF Covered
<1> QED
  BY <1>1, <1>2, <1>3, <1>4, Counted, Calm DEF Ledger

\* A step of a request leaves the ledger in order when it keeps the account of
\* its own user.
LEMMA Whole ==
  ASSUME IInv, IInv', Ledger, NEW r \in Reqs, Active(r), Moves(r), Owned',
         NEW u \in Users, u = user[r], Account(u)'
  PROVE  Ledger'
<1>1. \A w \in Users : w # user[r] => Account(w)'
  BY OthersKept
<1> QED
  BY <1>1 DEF Ledger

\* A request goes on with the instance it has, without a failure, and starts no
\* launch unless its user has no desktop on record.
LEMMA Goes ==
  ASSUME IInv, IInv', Ledger, NEW r \in Reqs, Active(r), Moves(r), Owned',
         NEW u \in Users, u = user[r],
         Active(r)', record' = record, faults' = faults,
         New(r) => New(r)' /\ target'[r] = target[r],
         \/ (Launching(r)' => Launching(r)) /\ (Undoing(r)' => Undoing(r))
         \/ ~Kept(u)
  PROVE  Ledger'
<1>1. /\ user' = user /\ overlaps' = overlaps /\ owner' = owner
      /\ \A i \in Insts : Alive(i)' <=> Alive(i)
      /\ \A q \in Reqs : q # r => pc'[q] = pc[q] /\ target'[q] = target[q]
  BY DEF Moves, event
<1>2. Acts(u)' = Acts(u)
  BY <1>1 DEF Acts
<1>3. Orphans(u)' \subseteq Orphans(u)
  <2>1. Mine(u)' = Mine(u)
    BY <1>1 DEF Mine
  <2>2. \A q \in Reqs : New(q) => New(q)' /\ target'[q] = target[q]
    BY <1>1
  <2> QED
    BY <1>1, <2>1, <2>2 DEF Orphans
<1>4. Covered(u) => Covered(u)'
  <2>1. Kept(u)' <=> Kept(u)
    BY <1>1 DEF Kept
  <2>2. CASE ~Kept(u)
    BY <1>1, <2>1, <2>2 DEF Covered
  <2>3. CASE (Launching(r)' => Launching(r)) /\ (Undoing(r)' => Undoing(r))
    <3>1. ASSUME NEW q \in Acts(u)
          PROVE  (Undoing(q)' => Undoing(q)) /\ (Launching(q)' => Launching(q))
      <4>1. q \in Reqs /\ Active(q)
        BY DEF Acts
      <4>2. pc[q] = "describe" => target[q] \in Insts
        BY <4>1 DEF IInv, Targets
      <4>3. CASE q = r
        BY <2>3, <4>3
      <4>4. CASE q # r
        BY <1>1, <4>1, <4>2, <4>4 DEF Undoing, Launching
      <4> QED
        BY <4>3, <4>4
    <3> QED
      BY <1>2, <2>1, <3>1 DEF Covered
  <2> QED
    BY <2>2, <2>3
<1>5. Account(u)'
  BY <1>1, <1>2, <1>3, <1>4, Counted, Calm DEF Ledger
<1> QED
  BY <1>5, Whole

\* What a request that ends takes off its user's account.
LEMMA Departs ==
  ASSUME IInv, NEW r \in Reqs, Active(r), ~Active(r)', Moves(r),
         NEW u \in Users, u = user[r],
         \A i \in Insts : record[u] = i => record'[u] = i
  PROVE  /\ r \in Acts(u) /\ Acts(u)' = Acts(u) \ {r}
         /\ Orphans(u)' \subseteq Orphans(u) \cup {target[r]}
         /\ ~New(r) => Orphans(u)' \subseteq Orphans(u)
<1>1. /\ user' = user /\ overlaps' = overlaps /\ owner' = owner
      /\ \A i \in Insts : Alive(i)' <=> Alive(i)
      /\ \A q \in Reqs : q # r => pc'[q] = pc[q] /\ target'[q] = target[q]
  BY DEF Moves, event
<1>2. r \in Acts(u) /\ Acts(u)' = Acts(u) \ {r}
  BY <1>1 DEF Acts
<1>3. Mine(u)' = Mine(u) /\ Mine(u) \subseteq Insts
  BY <1>1 DEF Mine
<1>4. ASSUME NEW i \in Orphans(u)', i \notin Orphans(u) PROVE New(r) /\ i = target[r]
  <2>1. i \in Mine(u) /\ record'[u] # i /\ \A q \in Reqs : New(q)' => target'[q] # i
    BY <1>3 DEF Orphans
  <2>2. record[u] # i
    BY <1>3, <2>1
  <2>3. PICK q \in Reqs : New(q) /\ target[q] = i
    BY <1>4, <2>1, <2>2 DEF Orphans
  <2>4. q = r
    BY <1>1, <2>1, <2>3
  <2> QED
    BY <2>3, <2>4
<1> QED
  BY <1>2, <1>4

\* A request ends, and what it worked on is on record.
LEMMA Ends ==
  ASSUME IInv, IInv', Ledger, NEW r \in Reqs, Active(r), Moves(r), Owned',
         ~Active(r)', ~New(r), NEW u \in Users, u = user[r],
         \A i \in Insts : record[u] = i => record'[u] = i,
         faults' = faults
  PROVE  Ledger'
<1>1. overlaps'[u] = overlaps[u] /\ faults'[u] = faults[u]
  BY DEF Moves, event
<1>2. Account(u)'
  BY <1>1, Departs, Counted, Leaves DEF Ledger
<1> QED
  BY <1>2, Whole

\* A request fails.
LEMMA Breaks ==
  ASSUME IInv, IInv', Ledger, NEW r \in Reqs, Active(r), Moves(r), Owned',
         ~Active(r)', NEW u \in Users, u = user[r],
         record' = record, faults'[u] = faults[u] + 1
  PROVE  Ledger'
<1>1. overlaps'[u] = overlaps[u]
  BY DEF Moves, event
<1>2. Account(u)'
  BY <1>1, Departs, Counted, Fails DEF Ledger
<1> QED
  BY <1>2, Whole

\* A failed call that the request survives.
LEMMA Pays ==
  ASSUME IInv, IInv', Ledger, NEW r \in Reqs, Active(r), Moves(r), Owned',
         Active(r)', ~New(r), NEW u \in Users, u = user[r],
         record' = record, faults'[u] = faults[u] + 1
  PROVE  Ledger'
<1>1. /\ user' = user /\ overlaps' = overlaps /\ owner' = owner
      /\ \A i \in Insts : Alive(i)' <=> Alive(i)
      /\ \A q \in Reqs : q # r => pc'[q] = pc[q] /\ target'[q] = target[q]
  BY DEF Moves, event
<1>2. Acts(u)' = Acts(u)
  BY <1>1 DEF Acts
<1>3. Orphans(u)' \subseteq Orphans(u)
  <2>1. Mine(u)' = Mine(u)
    BY <1>1 DEF Mine
  <2>2. \A q \in Reqs : New(q) => New(q)' /\ target'[q] = target[q]
    BY <1>1
  <2> QED
    BY <2>1, <2>2 DEF Orphans
<1>4. Account(u)'
  BY <1>1, <1>2, <1>3, Counted, Calm DEF Ledger
<1> QED
  BY <1>4, Whole

----------------------------------------------------------------------------
(* The ledger, action by action. *)

\* A request that comes in is free while it is alone, and pays for itself otherwise.
LEMMA PostLedger ==
  ASSUME IInv, IInv', Ledger, NEW r \in Reqs, NEW u \in Users, NEW a \in Ips, Post(r, u, a)
  PROVE  Ledger'
<1>1. /\ pc[r] = "idle" /\ pc' = [pc EXCEPT ![r] = "check"] /\ user' = [user EXCEPT ![r] = u]
      /\ record' = record /\ state' = state /\ owner' = owner /\ target' = target
      /\ faults' = faults
  BY DEF Post, dynamo, ec2
<1>2. /\ pc'[r] = "check" /\ user'[r] = u
      /\ \A q \in Reqs : q # r => pc'[q] = pc[q] /\ user'[q] = user[q]
  BY <1>1 DEF IInv, TypeOK, Served
<1>3. Owned'
  <2>1. \A q \in Reqs : /\ Resuming(q)' => Resuming(q) /\ user'[q] = user[q]
                       /\ New(q)' => New(q)
    BY <1>1, <1>2
  <2> QED
    BY <1>1, <2>1 DEF Ledger, Owned
<1>4. \A w \in Users : Mine(w)' = Mine(w) /\ (Kept(w)' <=> Kept(w))
                        /\ Orphans(w)' \subseteq Orphans(w)
  BY <1>1, <1>2 DEF Mine, Kept, Orphans
<1>5. \A q \in Reqs : Active(q) => (Undoing(q)' <=> Undoing(q)) /\ (Launching(q)' <=> Launching(q))
  BY <1>1, <1>2 DEF Undoing, Launching
<1>6. ~Undoing(r)' /\ ~Launching(r)'
  BY <1>2 DEF Undoing, Launching
<1>7. \A w \in Users : w # u => Acts(w)' = Acts(w)
  BY <1>1, <1>2 DEF Acts
<1>8. Acts(u)' = Acts(u) \cup {r}
  BY <1>1, <1>2 DEF Acts
<1>9. ASSUME NEW w \in Users, w # u PROVE Account(w)'
  <2>1. overlaps'[w] = overlaps[w] /\ faults'[w] = faults[w]
    BY <1>1, <1>9 DEF Post, IInv, TypeOK
  <2>2. Covered(w) => Covered(w)'
    BY <1>4, <1>5, <1>7, <1>9 DEF Covered, Acts
  <2> QED
    BY <1>4, <1>7, <1>9, <2>1, <2>2, Counted, Calm DEF Ledger
<1>10. Account(u)'
  <2>1. Acts(u) = {} /\ Covered(u)' => overlaps'[u] = overlaps[u]
    BY DEF Post, Acts
  <2>2. Acts(u) # {} => overlaps'[u] = overlaps[u] + 1
    BY DEF Post, Acts, IInv, TypeOK
  <2>3. Acts(u) = {} => Covered(u)'
    BY <1>6, <1>8 DEF Covered
  <2>4. Covered(u) => Covered(u)'
    <3>1. \A q \in Acts(u) : q \in Reqs /\ Active(q)
      BY DEF Acts
    <3> QED
      BY <1>4, <1>5, <1>6, <1>8, <3>1 DEF Covered
  <2>5. faults'[u] = faults[u]
    BY <1>1
  <2> QED
    BY <1>4, <1>8, <2>1, <2>2, <2>3, <2>4, <2>5, Counted, Joins DEF Ledger
<1> QED
  BY <1>3, <1>9, <1>10 DEF Ledger

\* The rate limit ends a request or lets it pass.
LEMMA CheckingLedger ==
  ASSUME IInv, IInv', Ledger, NEW r \in Reqs, CheckRateLimit(r) \/ RecordRateLimit(r)
  PROVE  Ledger'
<1>1. /\ Active(r) /\ ~New(r) /\ user[r] \in Users
      /\ UNCHANGED <<record, ec2, event, target, faults>>
  BY DEF CheckRateLimit, RecordRateLimit, dynamo, IInv, Served
<1>2. PICK place \in {"429", "record", "lookup"} : Goto(r, place)
  BY DEF CheckRateLimit, RecordRateLimit
<1>3. pc'[r] = place /\ \A q \in Reqs : q # r => pc'[q] = pc[q]
  BY <1>2 DEF IInv, Served
<1>4. Moves(r)
  BY <1>1, <1>3 DEF Moves, ec2
<1>5. Owned'
  <2>1. \A q \in Reqs : (Resuming(q)' => Resuming(q)) /\ (New(q)' => New(q))
    BY <1>3
  <2> QED
    BY <1>1, <2>1, OwnedKept DEF Ledger, ec2, event
<1>6. CASE place = "429"
  BY <1>1, <1>3, <1>4, <1>5, <1>6, Ends
<1>7. CASE place # "429"
  <2>1. Active(r)' /\ ~Launching(r)' /\ ~Undoing(r)'
    BY <1>3, <1>7 DEF Launching, Undoing
  <2> QED
    BY <1>1, <1>4, <1>5, <2>1, Goes
<1> QED
  BY <1>6, <1>7

\* A read that fails pays for the launch it leads to; one that finds no record needs
\* none.
LEMMA LookupLedger ==
  ASSUME IInv, IInv', Ledger, NEW r \in Reqs, Lookup(r) PROVE Ledger'
<1>1. /\ pc[r] = "lookup" /\ user[r] \in Users /\ UNCHANGED <<record, ec2, event>>
      /\ record[user[r]] \in {NoInst, Partial} \cup Insts
  BY DEF Lookup, dynamo, IInv, Served, TypeOK
<1>2. \/ /\ faults' = faults
         /\ target' = [target EXCEPT ![r] = IF record[user[r]] = Partial THEN NoInst ELSE record[user[r]]]
         /\ \/ record[user[r]] = NoInst /\ Goto(r, "launch")
            \/ record[user[r]] = Partial /\ Goto(r, "failed")
            \/ record[user[r]] \in Insts /\ Goto(r, "describe")
      \/ Fault(r) /\ Goto(r, "launch") /\ target' = target
  <2>1. CASE Fault(r) /\ Goto(r, "launch") /\ UNCHANGED target
    BY <2>1
  <2>2. CASE ~(Fault(r) /\ Goto(r, "launch") /\ UNCHANGED target)
    <3>1. /\ target' = [target EXCEPT ![r] = IF record[user[r]] = Partial
                                               THEN NoInst ELSE record[user[r]]]
          /\ Goto(r, CASE record[user[r]] = NoInst -> "launch"
                       [] record[user[r]] = Partial -> "failed"
                       [] OTHER -> "describe")
          /\ faults' = faults
      BY <2>2 DEF Lookup
    <3>2. CASE record[user[r]] = NoInst
      BY <3>1, <3>2
    <3>3. CASE record[user[r]] = Partial
      BY <3>1, <3>3
    <3>4. CASE record[user[r]] \in Insts
      <4>1. record[user[r]] # NoInst /\ record[user[r]] # Partial
        BY <3>4, NumberAssumption
      <4> QED
        BY <3>1, <3>4, <4>1
    <3> QED
      BY <1>1, <3>2, <3>3, <3>4
  <2> QED
    BY <2>1, <2>2
<1>3. /\ pc'[r] \in {"launch", "failed", "describe"}
      /\ \A q \in Reqs : q # r => pc'[q] = pc[q] /\ target'[q] = target[q]
      /\ \A w \in Users : w # user[r] => faults'[w] = faults[w]
  BY <1>1, <1>2 DEF IInv, Served, TypeOK
<1>4. Moves(r)
  BY <1>1, <1>3 DEF Moves, ec2
<1>5. Owned'
  <2>1. \A q \in Reqs : New(q)' => New(q) /\ target'[q] = target[q]
    BY <1>1, <1>3
  <2>2. ASSUME NEW q \in Reqs, Resuming(q)'
        PROVE  owner'[target'[q]] = user'[q] /\ \A n \in Reqs : New(n)' => target'[n] # target'[q]
    <3>1. CASE q # r
      BY <1>1, <1>3, <2>1, <2>2, <3>1 DEF Ledger, Owned, ec2, event
    <3>2. CASE q = r
      <4>1. record[user[r]] \in Insts /\ target'[r] = record[user[r]]
        BY <1>1, <1>2, <2>2, <3>2 DEF IInv, Served, TypeOK
      <4>2. owner[record[user[r]]] = user[r]
        BY <1>1, <4>1 DEF IInv, RecordSound
      <4>3. \A n \in Reqs : New(n) => target[n] # target'[r]
        BY <1>1, <4>1 DEF IInv, Private
      <4> QED
        BY <1>1, <2>1, <3>2, <4>1, <4>2, <4>3 DEF ec2, event
    <3> QED
      BY <3>1, <3>2
  <2> QED
    BY <2>2 DEF Owned
<1>6. CASE Fault(r) /\ Goto(r, "launch")
  <2>1. Active(r)' /\ faults'[user[r]] = faults[user[r]] + 1
    BY <1>1, <1>6 DEF IInv, Served, TypeOK
  <2> QED
    BY <1>1, <1>4, <1>5, <2>1, Pays
<1>7. CASE record[user[r]] = NoInst /\ Goto(r, "launch") /\ faults' = faults
  <2>1. Active(r)' /\ ~Kept(user[r])
    BY <1>1, <1>7 DEF IInv, Served, Kept
  <2> QED
    BY <1>1, <1>4, <1>5, <1>7, <2>1, Goes
<1>8. CASE Goto(r, "failed") /\ faults' = faults
  <2>1. ~Active(r)'
    BY <1>8 DEF IInv, Served
  <2> QED
    BY <1>1, <1>4, <1>5, <1>8, <2>1, Ends
<1>9. CASE record[user[r]] \in Insts /\ Goto(r, "describe") /\ faults' = faults
           /\ target' = [target EXCEPT ![r] = record[user[r]]]
  <2>1. Active(r)' /\ ~Launching(r)' /\ ~Undoing(r)'
    BY <1>1, <1>9 DEF IInv, Served, TypeOK, Launching, Undoing, event
  <2> QED
    BY <1>1, <1>4, <1>5, <1>9, <2>1, Goes
<1> QED
  BY <1>2, <1>6, <1>7, <1>8, <1>9

\* A failed call pays for the launch it leads to; an instance that is down was no
\* desktop, or the record no longer leads to it.
LEMMA DescribeLedger ==
  ASSUME IInv, IInv', Ledger, NEW r \in Reqs, Describe(r) PROVE Ledger'
<1>1. /\ pc[r] = "describe" /\ user[r] \in Users
      /\ UNCHANGED <<record, ec2, event, target>>
  BY DEF Describe, dynamo, IInv, Served
<1>2. /\ target[r] \in Insts /\ state[target[r]] \in {"pending", "running", "stopping",
                                                      "stopped", "terminated", "gone"}
  BY <1>1 DEF IInv, Targets, TypeOK
<1>3. PICK place \in {"delete", "group", "start", "202", "launch"} :
         /\ Goto(r, place)
         /\ \/ faults' = faults /\ (place \in {"delete", "launch"} => ~Alive(target[r]))
            \/ place = "delete" /\ Fault(r)
  BY <1>2 DEF Describe, NextOf
<1>4. /\ pc'[r] = place /\ \A q \in Reqs : q # r => pc'[q] = pc[q]
      /\ \A w \in Users : w # user[r] => faults'[w] = faults[w]
  BY <1>1, <1>3 DEF IInv, Served, TypeOK
<1>5. Moves(r)
  BY <1>1, <1>4 DEF Moves, ec2
<1>6. Owned'
  <2>1. \A q \in Reqs : (Resuming(q)' => Resuming(q)) /\ (New(q)' => New(q))
    BY <1>1, <1>4
  <2> QED
    BY <1>1, <2>1, OwnedKept DEF Ledger, ec2, event
<1>7. CASE Fault(r) /\ place = "delete"
  <2>1. Active(r)' /\ faults'[user[r]] = faults[user[r]] + 1
    BY <1>1, <1>4, <1>7 DEF IInv, TypeOK
  <2> QED
    BY <1>1, <1>5, <1>6, <2>1, Pays
<1>8. CASE faults' = faults /\ place = "202"
  BY <1>1, <1>4, <1>5, <1>6, <1>8, Ends
<1>9. CASE faults' = faults /\ place \in {"group", "start"}
  <2>1. Active(r)' /\ ~Launching(r)' /\ ~Undoing(r)'
    BY <1>4, <1>9 DEF Launching, Undoing
  <2> QED
    BY <1>1, <1>5, <1>6, <1>9, <2>1, Goes
<1>10. CASE faults' = faults /\ place \in {"delete", "launch"} /\ ~Alive(target[r])
  <2>1. Active(r)' /\ ~New(r)
    BY <1>1, <1>4, <1>10
  <2>2. CASE target[r] = record[user[r]]
    <3>1. ~Kept(user[r])
      BY <1>10, <2>2 DEF Kept
    <3> QED
      BY <1>1, <1>5, <1>6, <1>10, <2>1, <3>1, Goes
  <2>3. CASE target[r] # record[user[r]]
    <3>1. Undoing(r) /\ Launching(r)
      BY <1>1, <1>10, <2>3 DEF Undoing, Launching
    <3> QED
      BY <1>1, <1>5, <1>6, <1>10, <2>1, <3>1, Goes
  <2> QED
    BY <2>2, <2>3
<1> QED
  BY <1>3, <1>7, <1>8, <1>9, <1>10

\* A record that leads to a desktop again when it is deleted leaves an orphan, which
\* the request that was about to delete it had been charged for.
LEMMA DeleteLedger ==
  ASSUME IInv, IInv', Ledger, NEW r \in Reqs, DeleteRecord(r) PROVE Ledger'
<1>1. /\ pc[r] = "delete" /\ pc' = [pc EXCEPT ![r] = "launch"]
      /\ record' = [record EXCEPT ![user[r]] = NoInst]
      /\ UNCHANGED <<ec2, event, target, faults>>
  BY DEF DeleteRecord
<1>2. PICK u \in Users : u = user[r]
  BY <1>1 DEF IInv, Served
<1>3. /\ pc'[r] = "launch" /\ record'[u] = NoInst
      /\ \A q \in Reqs : q # r => pc'[q] = pc[q]
      /\ \A w \in Users : w # u => record'[w] = record[w]
  BY <1>1, <1>2 DEF IInv, Served, TypeOK
<1>4. Moves(r)
  BY <1>1, <1>2, <1>3 DEF Moves, ec2
<1>5. Owned'
  <2>1. \A q \in Reqs : (Resuming(q)' => Resuming(q)) /\ (New(q)' => New(q))
    BY <1>3
  <2> QED
    BY <1>1, <2>1, OwnedKept DEF Ledger, ec2, event
<1>6. Acts(u)' = Acts(u) /\ r \in Acts(u)
  BY <1>1, <1>2, <1>3 DEF Acts, event
<1>7. ~Kept(u)' /\ Covered(u)'
  BY <1>3, NumberAssumption DEF Kept, Covered
<1>8. Orphans(u)' \subseteq Orphans(u) \cup {record[u]}
  <2>1. Mine(u)' = Mine(u)
    BY <1>1 DEF Mine, ec2
  <2>2. \A q \in Reqs : New(q) => New(q)' /\ target'[q] = target[q]
    BY <1>1, <1>3
  <2> QED
    BY <2>1, <2>2 DEF Orphans
<1>9. overlaps'[u] = overlaps[u] /\ faults'[u] = faults[u]
  BY <1>1 DEF event
<1>10. CASE Kept(u)
  <2>1. ~Covered(u)
    BY <1>1, <1>6, <1>10 DEF Covered, Undoing
  <2>2. Account(u)'
    BY <1>6, <1>7, <1>8, <1>9, <2>1, Counted, Uncovers DEF Ledger
  <2> QED
    BY <1>1, <1>2, <1>4, <1>5, <2>2, Whole
<1>11. CASE ~Kept(u)
  <2>1. record[u] \notin Orphans(u)'
    BY <1>1, <1>11 DEF Orphans, Mine, Kept, ec2
  <2>2. Orphans(u)' \subseteq Orphans(u)
    BY <1>8, <2>1
  <2>3. Account(u)'
    BY <1>6, <1>7, <1>9, <2>2, Counted, Calm DEF Ledger
  <2> QED
    BY <1>1, <1>2, <1>4, <1>5, <2>3, Whole
<1> QED
  BY <1>10, <1>11

\* A stopped desktop is started, or refuses to.
LEMMA StartLedger ==
  ASSUME IInv, IInv', Ledger, NEW r \in Reqs, StartInstance(r) PROVE Ledger'
<1>1. /\ pc[r] = "start" /\ user[r] \in Users
      /\ state' = [state EXCEPT ![target[r]] = IF @ = "stopped" THEN "pending" ELSE @]
      /\ UNCHANGED <<record, owner, event, target, faults>>
  BY DEF StartInstance, dynamo, IInv, Served
<1>2. PICK place \in {"group_started", "failed"} : Goto(r, place)
  BY DEF StartInstance
<1>3. pc'[r] = place /\ \A q \in Reqs : q # r => pc'[q] = pc[q]
  BY <1>2 DEF IInv, Served
<1>4. \A i \in Insts : Alive(i)' <=> Alive(i)
  BY <1>1 DEF IInv, TypeOK
<1>5. Moves(r)
  BY <1>1, <1>3, <1>4 DEF Moves
<1>6. Owned'
  <2>1. \A q \in Reqs : (Resuming(q)' => Resuming(q)) /\ (New(q)' => New(q))
    BY <1>1, <1>3
  <2> QED
    BY <1>1, <2>1, OwnedKept DEF Ledger, event
<1>7. CASE place = "failed"
  <2>1. ~Active(r)' /\ Active(r) /\ ~New(r)
    BY <1>1, <1>3, <1>7
  <2> QED
    BY <1>1, <1>5, <1>6, <2>1, Ends
<1>8. CASE place = "group_started"
  <2>1. Active(r)' /\ Active(r) /\ ~New(r) /\ ~Launching(r)' /\ ~Undoing(r)'
    BY <1>1, <1>3, <1>8 DEF Launching, Undoing
  <2> QED
    BY <1>1, <1>5, <1>6, <2>1, Goes
<1> QED
  BY <1>7, <1>8

\* A request that stays as new as it was.
LEMMA StaysLedger ==
  ASSUME IInv, IInv', Ledger, NEW r \in Reqs, NEW place \in Places,
         Active(r), Goto(r, place), UNCHANGED <<record, state, owner, event, target, faults>>,
         Active(r)', New(r)' <=> New(r), Resuming(r)' => Resuming(r),
         place \notin {"launch", "describe", "delete"}
  PROVE  Ledger'
<1>1. pc'[r] = place /\ user[r] \in Users /\ \A q \in Reqs : q # r => pc'[q] = pc[q]
  BY DEF IInv, Served
<1>2. Moves(r)
  BY <1>1 DEF Moves
<1>3. Owned'
  <2>1. \A q \in Reqs : (Resuming(q)' => Resuming(q)) /\ (New(q)' => New(q))
    BY <1>1
  <2> QED
    BY <2>1, OwnedKept DEF Ledger, event
<1>4. ~Undoing(r)' /\ (Launching(r)' => Launching(r))
  BY <1>1 DEF Launching, Undoing
<1> QED
  BY <1>1, <1>2, <1>3, <1>4, Goes

\* The security group is read or changed.
LEMMA GroupLedger ==
  ASSUME IInv, IInv', Ledger, NEW r \in Reqs, ReadGroup(r) \/ AddToGroup(r)
  PROVE  Ledger'
<1>1. /\ Active(r) /\ user[r] \in Users
      /\ UNCHANGED <<record, state, owner, event, target, faults>>
      /\ pc[r] \in {"group", "add", "group_started", "add_started", "group_new", "add_new"}
  BY DEF ReadGroup, AddToGroup, InGroup, IInv, Served, dynamo, ec2
<1>2. CASE pc[r] \in {"group", "add"}
  <2>1. PICK place \in {"add", "200"} : Goto(r, place)
    BY <1>2 DEF ReadGroup, AddToGroup, InGroup, After
  <2>2. pc'[r] = place /\ \A q \in Reqs : q # r => pc'[q] = pc[q]
    BY <2>1 DEF IInv, Served
  <2>3. CASE place = "add"
    BY <1>1, <1>2, <2>1, <2>2, <2>3, StaysLedger
  <2>4. CASE place = "200"
    <3>1. Moves(r)
      BY <1>1, <2>2 DEF Moves
    <3>2. Owned'
      <4>1. \A q \in Reqs : (Resuming(q)' => Resuming(q)) /\ (New(q)' => New(q))
        BY <2>2, <2>4
      <4> QED
        BY <1>1, <4>1, OwnedKept DEF Ledger, event
    <3>3. ~Active(r)' /\ ~New(r)
      BY <1>2, <2>2, <2>4
    <3> QED
      BY <1>1, <3>1, <3>2, <3>3, Ends
  <2> QED
    BY <2>3, <2>4
<1>3. CASE pc[r] \in {"group_started", "add_started"}
  <2>1. PICK place \in {"add_started", "wait_started"} : Goto(r, place)
    BY <1>3 DEF ReadGroup, AddToGroup, InGroup, After
  <2>2. pc'[r] = place
    BY <2>1 DEF IInv, Served
  <2> QED
    BY <1>1, <1>3, <2>1, <2>2, StaysLedger
<1>4. CASE pc[r] \in {"group_new", "add_new"}
  <2>1. PICK place \in {"add_new", "wait_new"} : Goto(r, place)
    BY <1>4 DEF ReadGroup, AddToGroup, InGroup, After
  <2>2. pc'[r] = place
    BY <2>1 DEF IInv, Served
  <2> QED
    BY <1>1, <1>4, <2>1, <2>2, StaysLedger
<1> QED
  BY <1>1, <1>2, <1>3, <1>4

\* A new instance gets its volume.
LEMMA EquipLedger ==
  ASSUME IInv, IInv', Ledger, NEW r \in Reqs, CreateVolume(r) \/ AttachVolume(r)
  PROVE  Ledger'
<1>1. /\ pc[r] \in {"volume", "attach"}
      /\ UNCHANGED <<record, state, owner, event, target, faults>>
  BY DEF CreateVolume, AttachVolume, dynamo
<1>2. PICK place \in {"attach", "group_new"} : Goto(r, place)
  BY DEF CreateVolume, AttachVolume
<1>3. pc'[r] = place
  BY <1>2 DEF IInv, Served
<1> QED
  BY <1>1, <1>2, <1>3, StaysLedger

\* A request that fails may leave its new instance behind, and pays for it.
LEMMA FailLedger ==
  ASSUME IInv, IInv', Ledger, NEW r \in Reqs, Dies(r) \/ AddDuplicate(r) PROVE Ledger'
<1>1. /\ Active(r) /\ user[r] \in Users /\ Goto(r, "failed")
      /\ UNCHANGED <<record, ec2, event, target>>
      /\ faults' = [faults EXCEPT ![user[r]] = @ + 1]
  BY DEF Dies, AddDuplicate, dynamo, IInv, Served
<1>2. /\ pc'[r] = "failed" /\ \A q \in Reqs : q # r => pc'[q] = pc[q]
      /\ faults'[user[r]] = faults[user[r]] + 1
      /\ \A w \in Users : w # user[r] => faults'[w] = faults[w]
  BY <1>1 DEF IInv, Served, TypeOK
<1>3. Moves(r)
  BY <1>1, <1>2 DEF Moves, ec2
<1>4. Owned'
  <2>1. \A q \in Reqs : (Resuming(q)' => Resuming(q)) /\ (New(q)' => New(q))
    BY <1>2
  <2> QED
    BY <1>1, <2>1, OwnedKept DEF Ledger, ec2, event
<1>5. ~Active(r)'
  BY <1>2
<1> QED
  BY <1>1, <1>2, <1>3, <1>4, <1>5, Breaks

\* A resumed desktop has its address.
LEMMA AddressLedger ==
  ASSUME IInv, IInv', Ledger, NEW r \in Reqs, WaitStarted(r), Goto(r, "update") PROVE Ledger'
<1>1. /\ pc[r] = "wait_started"
      /\ UNCHANGED <<record, state, owner, event, target, faults>>
  BY DEF WaitStarted, ec2, dynamo
<1>2. pc'[r] = "update"
  BY DEF IInv, Served
<1> QED
  BY <1>1, <1>2, StaysLedger

\* A resumed desktop is answered.
LEMMA WaitLedger ==
  ASSUME IInv, IInv', Ledger, NEW r \in Reqs, WaitStarted(r) \/ UpdateItem(r) PROVE Ledger'
<1>0. CASE WaitStarted(r) /\ Goto(r, "update")
  BY <1>0, AddressLedger
<1> SUFFICES ASSUME ~(WaitStarted(r) /\ Goto(r, "update")) PROVE Ledger'
  BY <1>0
<1>1. /\ pc[r] \in {"wait_started", "update"} /\ user[r] \in Users
      /\ UNCHANGED <<state, owner, event, target, faults>>
      /\ \/ record' = [record EXCEPT ![user[r]] = IF @ = NoInst THEN Partial ELSE @]
         \/ record' = record
  BY DEF WaitStarted, UpdateItem, dynamo, ec2, IInv, Served
<1>2. PICK place \in {"200", "202"} : Goto(r, place)
  BY DEF WaitStarted, UpdateItem
<1>3. pc'[r] = place /\ \A q \in Reqs : q # r => pc'[q] = pc[q]
  BY <1>2 DEF IInv, Served
<1>4. /\ \A w \in Users : w # user[r] => record'[w] = record[w]
      /\ \A i \in Insts : record[user[r]] = i => record'[user[r]] = i
  BY <1>1, NumberAssumption DEF IInv, TypeOK
<1>5. Moves(r)
  BY <1>1, <1>3, <1>4 DEF Moves
<1>6. Owned'
  <2>1. \A q \in Reqs : (Resuming(q)' => Resuming(q)) /\ (New(q)' => New(q))
    BY <1>3
  <2> QED
    BY <1>1, <2>1, OwnedKept DEF Ledger, event
<1>7. Active(r) /\ ~Active(r)' /\ ~New(r)
  BY <1>1, <1>3
<1> QED
  BY <1>1, <1>4, <1>5, <1>6, <1>7, Ends

\* A new instance is known to the request that launched it.
LEMMA RunLedger ==
  ASSUME IInv, IInv', Ledger, NEW r \in Reqs, RunInstance(r) PROVE Ledger'
<1>1. PICK i \in Fresh : /\ state' = [state EXCEPT ![i] = "pending"]
                         /\ owner' = [owner EXCEPT ![i] = user[r]]
                         /\ target' = [target EXCEPT ![r] = i]
  BY DEF RunInstance
<1>2. i \in Insts /\ state[i] = "unused"
  BY <1>1 DEF Fresh
<1>3. /\ pc[r] = "launch" /\ pc' = [pc EXCEPT ![r] = "volume"]
      /\ UNCHANGED <<record, event, faults>>
  BY DEF RunInstance, dynamo
<1>4. /\ pc'[r] = "volume" /\ target'[r] = i
      /\ \A q \in Reqs : q # r => pc'[q] = pc[q] /\ target'[q] = target[q]
      /\ \A j \in Insts : j # i => state'[j] = state[j] /\ owner'[j] = owner[j]
  BY <1>1, <1>2, <1>3 DEF IInv, Served, TypeOK
<1>5. \A q \in Reqs : Resuming(q) => target[q] \in Insts /\ target[q] # i
  BY <1>2 DEF IInv, Targets
<1>6. Owned'
  <2>1. ASSUME NEW q \in Reqs, Resuming(q)'
        PROVE  owner'[target'[q]] = user'[q] /\ \A n \in Reqs : New(n)' => target'[n] # target'[q]
    <3>1. q # r /\ Resuming(q)
      BY <1>4, <2>1
    <3>2. target'[q] = target[q] /\ owner'[target[q]] = owner[target[q]]
      BY <1>4, <1>5, <3>1
    <3>3. owner[target[q]] = user[q] /\ \A n \in Reqs : New(n) => target[n] # target[q]
      BY <3>1 DEF Ledger, Owned
    <3>4. ASSUME NEW n \in Reqs, New(n)' PROVE target'[n] # target[q]
      BY <1>4, <1>5, <3>1, <3>3, <3>4
    <3> QED
      BY <1>3, <3>2, <3>3, <3>4 DEF event
  <2> QED
    BY <2>1 DEF Owned
<1>7. ASSUME NEW w \in Users PROVE Account(w)'
  <2>1. Acts(w)' = Acts(w)
    BY <1>3, <1>4 DEF Acts, event
  <2>2. Orphans(w)' \subseteq Orphans(w)
    <3>1. ASSUME NEW j \in Orphans(w)' PROVE j \in Orphans(w)
      <4>1. /\ j \in Insts /\ Alive(j)' /\ owner'[j] = w /\ record'[w] # j
            /\ \A q \in Reqs : New(q)' => target'[q] # j
        BY DEF Orphans, Mine
      <4>2. j # i
        BY <1>4, <4>1
      <4>3. Alive(j) /\ owner[j] = w /\ record[w] # j
        BY <1>3, <1>4, <4>1, <4>2
      <4>4. \A q \in Reqs : New(q) => target[q] # j
        BY <1>3, <1>4, <4>1
      <4> QED
        BY <4>1, <4>3, <4>4 DEF Orphans, Mine
    <3> QED
      BY <3>1
  <2>3. Kept(w)' <=> Kept(w)
    <3>1. record[w] \in Insts => record[w] # i
      BY <1>2 DEF IInv, Recorded
    <3> QED
      BY <1>3, <1>4, <3>1 DEF Kept
  <2>4. \A q \in Acts(w) : (Undoing(q)' => Undoing(q)) /\ (Launching(q)' => Launching(q))
    <3>1. ASSUME NEW q \in Reqs, q # r PROVE Undoing(q)' <=> Undoing(q)
      <4>1. pc[q] = "describe" => (Alive(target[q])' <=> Alive(target[q]))
        BY <1>4, <1>5, <3>1
      <4> QED
        BY <1>3, <1>4, <3>1, <4>1 DEF Undoing, event
    <3>2. ~Undoing(r)' /\ Launching(r)
      BY <1>3, <1>4 DEF Undoing, Launching
    <3> QED
      BY <1>4, <3>1, <3>2 DEF Acts, Launching
  <2>5. overlaps'[w] = overlaps[w] /\ faults'[w] = faults[w]
    BY <1>3 DEF event
  <2>6. Covered(w) => Covered(w)'
    BY <2>1, <2>3, <2>4 DEF Covered
  <2> QED
    BY <2>1, <2>2, <2>5, <2>6, Counted, Calm DEF Ledger
<1> QED
  BY <1>6, <1>7 DEF Ledger

\* The new desktop is recorded; the one it replaces is an orphan of the request that
\* ends.
LEMMA PutLedger ==
  ASSUME IInv, IInv', Ledger, NEW r \in Reqs, PutItem(r) PROVE Ledger'
<1>1. /\ pc[r] = "wait_new" /\ target[r] \in Insts
      /\ record' = [record EXCEPT ![user[r]] = target[r]]
      /\ UNCHANGED <<ec2, event, target, faults>>
  BY DEF PutItem, IInv, Targets
<1>2. PICK u \in Users : u = user[r]
  BY <1>1 DEF IInv, Served
<1>3. PICK place \in {"201", "202"} : Goto(r, place)
  BY DEF PutItem
<1>4. /\ pc'[r] = place /\ record'[u] = target[r]
      /\ \A q \in Reqs : q # r => pc'[q] = pc[q]
      /\ \A w \in Users : w # u => record'[w] = record[w]
  BY <1>1, <1>2, <1>3 DEF IInv, Served, TypeOK
<1>5. Moves(r)
  BY <1>1, <1>2, <1>4 DEF Moves, ec2
<1>6. Owned'
  <2>1. \A q \in Reqs : (Resuming(q)' => Resuming(q)) /\ (New(q)' => New(q))
    BY <1>4
  <2> QED
    BY <1>1, <2>1, OwnedKept DEF Ledger, ec2, event
<1>7. r \in Acts(u) /\ Acts(u)' = Acts(u) \ {r}
  BY <1>1, <1>2, <1>4 DEF Acts, event
<1>8. \A j \in Orphans(u)' : j \notin Orphans(u) => j = record[u] /\ Kept(u)
  <2>1. ASSUME NEW j \in Orphans(u)', j \notin Orphans(u) PROVE j = record[u]
    <3>1. /\ j \in Mine(u) /\ record'[u] # j
          /\ \A q \in Reqs : New(q)' => target'[q] # j
      BY <1>1 DEF Orphans, Mine, ec2
    <3>2. \A q \in Reqs : New(q) => target[q] # j
      BY <1>1, <1>4, <3>1
    <3> QED
      BY <2>1, <3>1, <3>2 DEF Orphans
  <2>2. \A j \in Orphans(u)' : j \in Insts /\ Alive(j)
    BY <1>1 DEF Orphans, Mine, ec2
  <2> QED
    BY <2>1, <2>2 DEF Kept
<1>9. overlaps'[u] = overlaps[u] /\ faults'[u] = faults[u]
  BY <1>1 DEF event
<1>10. CASE ~Kept(u)
  <2>1. Orphans(u)' \subseteq Orphans(u)
    BY <1>8, <1>10
  <2>2. Account(u)'
    BY <1>7, <1>9, <2>1, Counted, Leaves DEF Ledger
  <2> QED
    BY <1>1, <1>2, <1>5, <1>6, <2>2, Whole
<1>11. CASE Kept(u)
  <2>1. Orphans(u)' \subseteq Orphans(u) \cup {record[u]}
    BY <1>8
  <2>2. Covered(u) => Covered(u)' /\ Acts(u)' # {}
    <3>1. SUFFICES ASSUME Covered(u) PROVE Covered(u)' /\ Acts(u)' # {}
      OBVIOUS
    <3>2. /\ \A q \in Acts(u) : ~Undoing(q)
          /\ \E q \in Acts(u) : ~Launching(q)
      BY <1>11, <3>1 DEF Covered
    <3>3. ASSUME NEW q \in Acts(u)' PROVE ~Undoing(q)' /\ (Launching(q)' => Launching(q))
      <4>1. q \in Reqs /\ q # r /\ user[q] = u /\ pc'[q] = pc[q] /\ ~Undoing(q)
        BY <1>4, <1>7, <3>2 DEF Acts
      <4>2. pc[q] = "describe" => Alive(target[q])
        BY <1>11, <4>1 DEF Undoing, Kept
      <4>3. ~Undoing(q)'
        BY <1>1, <4>1, <4>2 DEF Undoing, ec2
      <4> QED
        BY <4>1, <4>3 DEF Launching
    <3>4. Launching(r)
      BY <1>1 DEF Launching
    <3>5. PICK q \in Acts(u) : ~Launching(q)
      BY <3>2
    <3>6. q \in Acts(u)'
      BY <1>7, <3>4, <3>5
    <3> QED
      BY <3>3, <3>5, <3>6 DEF Covered
  <2>3. Account(u)'
    BY <1>7, <1>9, <2>1, <2>2, Counted, Replaces DEF Ledger
  <2> QED
    BY <1>1, <1>2, <1>5, <1>6, <2>3, Whole
<1> QED
  BY <1>10, <1>11

\* An instance goes down, or none comes up or goes down, and no request moves.
LEMMA WorldLedger ==
  ASSUME IInv, IInv', Ledger, NEW i \in Insts, WorldStep(i) PROVE Ledger'
<1>1. UNCHANGED <<record, owner, pc, event, target, faults>>
  BY DEF WorldStep, Boot, IdleStop, Stopped, Forget, Becomes, Interrupt, dynamo
<1>2. /\ \A j \in Insts : j # i => (Alive(j)' <=> Alive(j))
      /\ Alive(i)' => Alive(i)
  BY DEF WorldStep, Boot, IdleStop, Stopped, Forget, Becomes, Interrupt, IInv, TypeOK
<1>3. Owned'
  BY <1>1, OwnedKept DEF Ledger, event
<1>4. ASSUME NEW w \in Users PROVE Account(w)'
  <2>1. Acts(w)' = Acts(w)
    BY <1>1 DEF Acts, event
  <2>2. Orphans(w)' \subseteq Orphans(w)
    BY <1>1, <1>2 DEF Orphans, Mine
  <2>3. overlaps'[w] = overlaps[w] /\ faults'[w] = faults[w]
    BY <1>1 DEF event
  <2>4. CASE Covered(w) => Covered(w)'
    BY <2>1, <2>2, <2>3, <2>4, Counted, Calm DEF Ledger
  <2>5. CASE Covered(w) /\ ~Covered(w)'
    <3>1. Kept(w)' /\ Kept(w)
      BY <1>1, <1>2, <2>5 DEF Covered, Kept
    <3>2. /\ \E q \in Acts(w) : ~Launching(q)
          /\ \A q \in Acts(w) : ~Undoing(q)
      BY <2>5, <3>1 DEF Covered
    <3>3. PICK q \in Acts(w) : Undoing(q)' /\ ~Undoing(q)
      <4>1. SUFFICES ASSUME \A q \in Acts(w) : ~Undoing(q)' PROVE FALSE
        BY <3>2
      <4>2. \A q \in Acts(w) : Launching(q)' => Launching(q)
        BY <1>1, <4>1 DEF Launching
      <4> QED
        BY <2>1, <2>5, <3>2, <4>1, <4>2 DEF Covered
    <3>4. /\ q \in Reqs /\ pc[q] = "describe" /\ user[q] = w
          /\ target[q] # record[w] /\ ~Alive(target[q])' /\ Alive(target[q])
      BY <1>1, <3>3 DEF Undoing, Acts, event
    <3>5. target[q] = i
      <4>1. target[q] \in Insts /\ target'[q] = target[q]
        BY <1>1, <3>4 DEF IInv, Targets
      <4> QED
        BY <1>2, <3>4, <4>1
    <3>6. i \in Orphans(w)
      BY <3>4, <3>5 DEF Orphans, Mine, Ledger, Owned
    <3>7. i \notin Orphans(w)'
      <4>1. ~Alive(i)'
        BY <1>1, <3>4, <3>5
      <4> QED
        BY <4>1 DEF Orphans, Mine
    <3> QED
      BY <2>1, <2>2, <2>3, <3>6, <3>7, Counted, Lost DEF Ledger
  <2> QED
    BY <2>4, <2>5
<1> QED
  BY <1>3, <1>4 DEF Ledger

\* Nothing that a ledger is about changes.
LEMMA StillLedger ==
  ASSUME Ledger, UNCHANGED <<record, ec2, pc, event, target, faults>> PROVE Ledger'
  BY DEF Ledger, Owned, Account, Grant, Acts, Orphans, Mine, Kept, Covered, Undoing,
         Launching, ec2, event

\* Every step keeps the ledger.
LEMMA StepLedger == ASSUME IInv, IInv', Ledger, [Next]_vars PROVE Ledger'
<1>1. CASE Tick \/ UNCHANGED vars
  <2>1. UNCHANGED <<record, ec2, pc, event, target, faults>>
    BY <1>1 DEF Tick, vars, dynamo
  <2> QED
    BY <2>1, StillLedger
<1>2. ASSUME NEW r \in Reqs, NEW u \in Users, NEW a \in Ips, Post(r, u, a) PROVE Ledger'
  BY <1>2, PostLedger
<1>3. ASSUME NEW r \in Reqs, Step(r) PROVE Ledger'
  BY <1>3, CheckingLedger, LookupLedger, DescribeLedger, DeleteLedger, StartLedger,
     GroupLedger, WaitLedger, RunLedger, EquipLedger, PutLedger, FailLedger DEF Step
<1>4. ASSUME NEW i \in Insts, WorldStep(i) PROVE Ledger'
  BY <1>4, WorldLedger
<1> QED
  BY <1>1, <1>2, <1>3, <1>4 DEF Next, WorldStep

\* Nothing is at work, and nothing runs, before the first request.
LEMMA InitLedger == Init => Ledger
<1> SUFFICES ASSUME Init PROVE Ledger
  OBVIOUS
<1>1. Owned
  BY DEF Init, Owned
<1>2. ASSUME NEW u \in Users PROVE Account(u)
  <2>1. Acts(u) = {} /\ Orphans(u) = {}
    BY DEF Init, Acts, Orphans, Mine
  <2>2. faults[u] = 0 /\ overlaps[u] = 0 /\ Grant(u) = 0
    BY <2>1 DEF Init, Grant
  <2> QED
    BY <2>1, <2>2, FS_EmptySet DEF Account
<1> QED
  BY <1>1, <1>2 DEF Ledger

\* The accounts of all users are always in order.
THEOREM Balanced == Spec => []Ledger
<1>1. IInv /\ IInv' /\ Ledger /\ [Next]_vars => Ledger'
  BY StepLedger
<1> QED
  BY <1>1, InitLedger, Invariance, PTL DEF Spec

\* There are not more desktops that nothing leads to than failures and overlaps:
\* a user's request at work makes up for the grant.
THEOREM Orphaned == Spec => []NoOrphans
<1>1. ASSUME IInv, Ledger PROVE NoOrphans
  <2>1. SUFFICES ASSUME NEW u \in Users
                 PROVE  Cardinality({i \in Mine(u) : record[u] # i /\ ~Tended(i)})
                           <= faults[u] + overlaps[u]
    BY DEF NoOrphans
  <2> DEFINE lost == {i \in Mine(u) : record[u] # i /\ ~Tended(i)}
  <2>2. lost \subseteq Orphans(u)
    BY DEF Orphans, Tended
  <2>3. /\ faults[u] \in Nat /\ overlaps[u] \in Nat
        /\ IsFiniteSet(Orphans(u)) /\ IsFiniteSet(Acts(u))
        /\ Cardinality(Orphans(u)) + Cardinality(Acts(u)) <= faults[u] + overlaps[u] + Grant(u)
    BY <1>1 DEF IInv, TypeOK, Ledger, Account
  <2> HIDE DEF lost
  <2>4. Cardinality(lost) <= Cardinality(Orphans(u)) /\ Cardinality(lost) \in Nat
    BY <2>2, <2>3, GainsNone
  <2>5. Cardinality(Orphans(u)) \in Nat /\ Cardinality(Acts(u)) \in Nat
    BY <2>3, FS_CardinalityType
  <2>6. Grant(u) <= Cardinality(Acts(u))
    <3>1. Acts(u) # {} => Cardinality(Acts(u)) # 0
      BY <2>3, FS_EmptySet
    <3> QED
      BY <2>5, <3>1 DEF Grant
  <2>7. Cardinality(lost) <= faults[u] + overlaps[u]
    BY <2>3, <2>4, <2>5, <2>6 DEF Grant
  <2> QED
    BY <2>7 DEF lost
<1> QED
  BY <1>1, Invariance, Balanced, PTL

\* What a user has: orphans, a desktop for each request that has launched one,
\* and the desktop on record.
LEMMA Belongings ==
  ASSUME IInv, Ledger, NEW u \in Users
  PROVE  LET news == {q \in Acts(u) : New(q)} IN
         /\ IsFiniteSet(news) /\ IsFiniteSet(Mine(u))
         /\ Cardinality(news) \in Nat /\ Cardinality(Mine(u)) \in Nat
         /\ Cardinality(Mine(u)) <= Cardinality(Orphans(u)) + Cardinality(news)
                                        + IF Kept(u) THEN 1 ELSE 0
<1> DEFINE news     == {q \in Acts(u) : New(q)}
           launched == {target[q] : q \in news}
           onRecord == {i \in {record[u]} : Kept(u)}
<1>1. IsFiniteSet(Acts(u)) /\ IsFiniteSet(Orphans(u))
  BY DEF Ledger, Account
<1>2. IsFiniteSet(news)
  BY <1>1, FS_Subset
<1>3. IsFiniteSet(launched) /\ Cardinality(launched) <= Cardinality(news)
  <2>1. [q \in news |-> target[q]] \in Surjection(news, launched)
    BY DEF Surjection
  <2> HIDE DEF news, launched
  <2> QED
    BY <1>2, <2>1, FS_Surjection
<1>4. IsFiniteSet(onRecord) /\ Cardinality(onRecord) = IF Kept(u) THEN 1 ELSE 0
  <2>1. CASE Kept(u)
    <3>1. onRecord = {record[u]}
      BY <2>1
    <3> HIDE DEF onRecord
    <3> QED
      BY <2>1, <3>1, FS_Singleton
  <2>2. CASE ~Kept(u)
    <3>1. onRecord = {}
      BY <2>2
    <3> HIDE DEF onRecord
    <3> QED
      BY <2>2, <3>1, FS_EmptySet
  <2> QED
    BY <2>1, <2>2
<1>5. Mine(u) \subseteq (Orphans(u) \cup launched) \cup onRecord
  <2>1. ASSUME NEW i \in Mine(u), i \notin Orphans(u), i # record[u] PROVE i \in launched
    <3>1. PICK q \in Reqs : New(q) /\ target[q] = i
      BY <2>1 DEF Orphans
    <3>2. q \in Acts(u)
      BY <2>1, <3>1 DEF IInv, Targets, Mine, Acts
    <3> QED
      BY <3>1, <3>2
  <2>2. ASSUME NEW i \in Mine(u), i = record[u] PROVE i \in onRecord
    BY <2>2 DEF Mine, Kept
  <2> HIDE DEF launched, onRecord
  <2> QED
    BY <2>1, <2>2
<1> HIDE DEF news, launched, onRecord
<1>6. /\ IsFiniteSet(Orphans(u) \cup launched)
      /\ Cardinality(Orphans(u) \cup launched) <= Cardinality(Orphans(u)) + Cardinality(launched)
  BY <1>1, <1>3, JoinsSets
<1>7. /\ IsFiniteSet((Orphans(u) \cup launched) \cup onRecord)
      /\ Cardinality((Orphans(u) \cup launched) \cup onRecord)
            <= Cardinality(Orphans(u) \cup launched) + Cardinality(onRecord)
  BY <1>4, <1>6, JoinsSets
<1>8. /\ IsFiniteSet(Mine(u))
      /\ Cardinality(Mine(u)) <= Cardinality((Orphans(u) \cup launched) \cup onRecord)
  BY <1>5, <1>7, GainsNone
<1>9. /\ Cardinality(Mine(u)) \in Nat /\ Cardinality(news) \in Nat /\ Cardinality(launched) \in Nat
      /\ Cardinality(onRecord) \in Nat /\ Cardinality(Orphans(u)) \in Nat
      /\ Cardinality(Orphans(u) \cup launched) \in Nat
      /\ Cardinality((Orphans(u) \cup launched) \cup onRecord) \in Nat
  BY <1>1, <1>2, <1>3, <1>4, <1>6, <1>7, <1>8, FS_CardinalityType
<1>10. Cardinality(Mine(u)) <= Cardinality(Orphans(u)) + Cardinality(news) + Cardinality(onRecord)
  BY <1>3, <1>6, <1>7, <1>8, <1>9
<1> QED
  BY <1>2, <1>4, <1>8, <1>9, <1>10 DEF news

\* There are not more desktops than one and what failures and overlaps explain: a
\* request that launches beside a desktop on record has another at work beside
\* it, or no grant.
THEOREM Desktops == Spec => []OneDesktop
<1>1. ASSUME IInv, Ledger PROVE OneDesktop
  <2>1. SUFFICES ASSUME NEW u \in Users
                 PROVE  Cardinality(Mine(u)) <= 1 + faults[u] + overlaps[u]
    BY DEF OneDesktop
  <2> DEFINE news == {q \in Acts(u) : New(q)}
  <2>2. /\ faults[u] \in Nat /\ overlaps[u] \in Nat
        /\ IsFiniteSet(Orphans(u)) /\ IsFiniteSet(Acts(u))
        /\ Cardinality(Orphans(u)) + Cardinality(Acts(u)) <= faults[u] + overlaps[u] + Grant(u)
    BY <1>1 DEF IInv, TypeOK, Ledger, Account
  <2>3. /\ Cardinality(news) \in Nat /\ Cardinality(Mine(u)) \in Nat
        /\ Cardinality(Mine(u)) <= Cardinality(Orphans(u)) + Cardinality(news)
                                       + IF Kept(u) THEN 1 ELSE 0
    BY <1>1, Belongings
  <2>4. Cardinality(Orphans(u)) \in Nat /\ Cardinality(Acts(u)) \in Nat
    BY <2>2, FS_CardinalityType
  <2>5. Cardinality(news) <= Cardinality(Acts(u))
    BY <2>2, GainsNone
  <2>6. Kept(u) /\ Grant(u) = 1 => Cardinality(news) <= Cardinality(Acts(u)) - 1
    <3>1. SUFFICES ASSUME Kept(u), Grant(u) = 1
                   PROVE  Cardinality(news) <= Cardinality(Acts(u)) - 1
      OBVIOUS
    <3>2. PICK q \in Acts(u) : ~Launching(q)
      BY <3>1 DEF Grant, Covered
    <3>3. news \subseteq Acts(u) \ {q}
      BY <3>2 DEF Launching
    <3> HIDE DEF news
    <3> QED
      BY <2>2, <3>2, <3>3, LosesOne
  <2>7. Grant(u) \in {0, 1}
    BY DEF Grant
  <2> HIDE DEF news
  <2> QED
    BY <2>2, <2>3, <2>4, <2>5, <2>6, <2>7
<1> QED
  BY <1>1, Invariance, Balanced, PTL
=============================================================================
