------------------------- MODULE DesktopProvisioner -------------------------
(***************************************************************************)
(* POST /desktops (desktop_provisioner.py): rate limit, the record of a      *)
(* user's desktop in DynamoDB, the spot instance and its data volume in EC2, *)
(* the security group; request by request, with failures and Lambda          *)
(* timeouts, beside what EC2 and the idle check do to instances.             *)
(*                                                                         *)
(* GET /desktops changes nothing and is not modelled, nor are the API key    *)
(* check, the stored Claude key and the user data script.                    *)
(***************************************************************************)
EXTENDS Integers, FiniteSets

CONSTANTS
    Reqs,        \* invocations of the Lambda
    Users, Ips,
    None,        \* no user, no address
    RateLimit,   \* RATE_LIMIT_SECONDS, in ticks
    MaxInst,     \* bound: instances ever launched
    MaxFaults,   \* bound: failed calls and lost invocations per user
    MaxOverlaps  \* bound: requests of a user made while another is served

ASSUME NumberAssumption ==
    RateLimit \in Nat /\ MaxInst \in Nat /\ MaxFaults \in Nat /\ MaxOverlaps \in Nat

Insts   == 1..MaxInst
NoInst  == 0      \* no record
Partial == -1     \* a record without instance_id

VARIABLES
    since,      \* RATELIMIT# records: age of an address's last request
    record,     \* USER# records: the instance
    state,      \* EC2: state of every instance
    owner,      \* its Owner tag
    volume,     \* its data volume: "none", "loose" or "attached"
    ingress,    \* addresses of the security group
    pc, user, ip, target,  \* an invocation: its place, event and instance
    faults,     \* failures so far, of every user
    overlaps    \* requests so far that overlapped an earlier one of the user

ec2    == <<state, owner, volume>>
dynamo == <<since, record>>
event  == <<user, ip, overlaps>>
vars   == <<dynamo, ec2, ingress, pc, event, target, faults>>

Init ==
    /\ since = [a \in Ips |-> RateLimit]
    /\ record = [u \in Users |-> NoInst]
    /\ state = [i \in Insts |-> "unused"]
    /\ owner = [i \in Insts |-> None]
    /\ volume = [i \in Insts |-> "none"]
    /\ ingress = {}
    /\ pc = [r \in Reqs |-> "idle"]
    /\ user = [r \in Reqs |-> None]
    /\ ip = [r \in Reqs |-> None]
    /\ target = [r \in Reqs |-> NoInst]
    /\ faults = [u \in Users |-> 0]
    /\ overlaps = [u \in Users |-> 0]

Goto(r, place) == pc' = [pc EXCEPT ![r] = place]

Replies == {"200", "201", "202", "429", "failed"}
Active(r) == pc[r] \notin Replies \cup {"idle"}

Fault(r) ==
    /\ faults[user[r]] < MaxFaults
    /\ faults' = [faults EXCEPT ![user[r]] = @ + 1]

At(r, place) == pc[r] = place

----------------------------------------------------------------------------
(* A request. *)

\* A user need not wait for an answer: the gateway gives up after 29 s, a launch
\* can take longer.
Post(r, u, a) ==
    /\ At(r, "idle")
    /\ IF \E q \in Reqs : Active(q) /\ user[q] = u
       THEN overlaps[u] < MaxOverlaps /\ overlaps' = [overlaps EXCEPT ![u] = @ + 1]
       ELSE UNCHANGED overlaps
    /\ user' = [user EXCEPT ![r] = u] /\ ip' = [ip EXCEPT ![r] = a]
    /\ Goto(r, "check")
    /\ UNCHANGED <<dynamo, ec2, ingress, target, faults>>

Limited(a) == since[a] < RateLimit

\* A failed read lets the request pass.
CheckRateLimit(r) ==
    /\ At(r, "check")
    /\ \/ Limited(ip[r]) /\ Goto(r, "429")
       \/ Goto(r, "record")
    /\ UNCHANGED <<dynamo, ec2, ingress, event, target, faults>>

RecordRateLimit(r) ==
    /\ At(r, "record")
    /\ since' = [since EXCEPT ![ip[r]] = 0]
    /\ Goto(r, "lookup")
    /\ UNCHANGED <<record, ec2, ingress, event, target, faults>>

\* A failed read passes for no record, as does one that misses what has just been
\* written (the read is not a consistent one); a record without instance_id raises.
Lookup(r) ==
    /\ At(r, "lookup")
    /\ \/ /\ target' = [target EXCEPT ![r] = IF record[user[r]] = Partial
                                             THEN NoInst ELSE record[user[r]]]
          /\ Goto(r, CASE record[user[r]] = NoInst -> "launch"
                       [] record[user[r]] = Partial -> "failed"
                       [] OTHER -> "describe")
          /\ UNCHANGED faults
       \/ Fault(r) /\ Goto(r, "launch") /\ UNCHANGED target
    /\ UNCHANGED <<dynamo, ec2, ingress, event>>

\* Mutant: an instance on its way down is taken for no instance.
NextOfLate(s) ==
    CASE s = "gone" -> "delete"
      [] s = "running" -> "group"
      [] s = "stopped" -> "start"
      [] s = "pending" -> "202"
      [] s \in {"stopping", "terminated"} -> "launch"

\* What handler does next for an instance in a state.
NextOf(s) ==
    CASE s = "gone" -> "delete"
      [] s = "running" -> "group"
      [] s = "stopped" -> "start"
      [] s \in {"stopping", "pending"} -> "202"
      [] s = "terminated" -> "launch"

\* get_instance_state: every ClientError passes for a missing instance.
Describe(r) ==
    /\ At(r, "describe")
    /\ \/ Goto(r, NextOf(state[target[r]])) /\ UNCHANGED faults
       \/ Fault(r) /\ Goto(r, "delete")
    /\ UNCHANGED <<dynamo, ec2, ingress, event, target>>

DeleteRecord(r) ==
    /\ At(r, "delete")
    /\ record' = [record EXCEPT ![user[r]] = NoInst]
    /\ Goto(r, "launch")
    /\ UNCHANGED <<since, ec2, ingress, event, target, faults>>

\* start_instances does nothing to an instance already up, and raises for one
\* that is going down or gone.
StartInstance(r) ==
    /\ At(r, "start")
    /\ state' = [state EXCEPT ![target[r]] = IF @ = "stopped" THEN "pending" ELSE @]
    /\ Goto(r, IF state[target[r]] \in {"stopped", "pending", "running"}
               THEN "group_started" ELSE "failed")
    /\ UNCHANGED <<dynamo, owner, volume, ingress, event, target, faults>>

InGroup(r) == pc[r] \in {"group", "group_started", "group_new"}

After(r) == CASE At(r, "group") \/ At(r, "add") -> "200"
              [] At(r, "group_started") \/ At(r, "add_started") -> "wait_started"
              [] At(r, "group_new") \/ At(r, "add_new") -> "wait_new"

\* update_security_group: read, then add.
ReadGroup(r) ==
    /\ InGroup(r)
    /\ Goto(r, IF ip[r] \in ingress THEN After(r)
               ELSE CASE At(r, "group") -> "add"
                      [] At(r, "group_started") -> "add_started"
                      [] At(r, "group_new") -> "add_new")
    /\ UNCHANGED <<dynamo, ec2, ingress, event, target, faults>>

AddToGroup(r) ==
    /\ pc[r] \in {"add", "add_started", "add_new"}
    /\ ip[r] \notin ingress
    /\ ingress' = ingress \cup {ip[r]}
    /\ Goto(r, After(r))
    /\ UNCHANGED <<dynamo, ec2, event, target, faults>>

\* EC2 refuses a rule that another request has just added: the request fails.
AddDuplicate(r) ==
    /\ pc[r] \in {"add", "add_started", "add_new"}
    /\ ip[r] \in ingress
    /\ faults' = [faults EXCEPT ![user[r]] = @ + 1]
    /\ Goto(r, "failed")
    /\ UNCHANGED <<dynamo, ec2, ingress, event, target>>

\* wait_for_ip.
WaitStarted(r) ==
    /\ At(r, "wait_started")
    /\ \/ state[target[r]] \in {"pending", "running"} /\ Goto(r, "update")
       \/ Goto(r, "202")
    /\ UNCHANGED <<dynamo, ec2, ingress, event, target, faults>>

\* update_item would create a record that is not there.
UpdateItem(r) ==
    /\ At(r, "update")
    /\ record' = [record EXCEPT ![user[r]] = IF @ = NoInst THEN Partial ELSE @]
    /\ Goto(r, "200")
    /\ UNCHANGED <<since, ec2, ingress, event, target, faults>>

Fresh == {i \in Insts : state[i] = "unused" /\ \A j \in 1..(i - 1) : state[j] # "unused"}

\* Mutant: the desktop is recorded before it has its volume.
RunInstanceRecorded(r) ==
    /\ At(r, "launch")
    /\ \E i \in Fresh :
          /\ state' = [state EXCEPT ![i] = "pending"]
          /\ owner' = [owner EXCEPT ![i] = user[r]]
          /\ target' = [target EXCEPT ![r] = i]
          /\ record' = [record EXCEPT ![user[r]] = i]
    /\ Goto(r, "volume")
    /\ UNCHANGED <<since, volume, ingress, event, faults>>

RunInstance(r) ==
    /\ At(r, "launch")
    /\ \E i \in Fresh :
          /\ state' = [state EXCEPT ![i] = "pending"]
          /\ owner' = [owner EXCEPT ![i] = user[r]]
          /\ target' = [target EXCEPT ![r] = i]
    /\ Goto(r, "volume")
    /\ UNCHANGED <<dynamo, volume, ingress, event, faults>>

CreateVolume(r) ==
    /\ At(r, "volume")
    /\ volume' = [volume EXCEPT ![target[r]] = "loose"]
    /\ Goto(r, "attach")
    /\ UNCHANGED <<dynamo, state, owner, ingress, event, target, faults>>

\* The waiter for "running", then attach_volume.
AttachVolume(r) ==
    /\ At(r, "attach")
    /\ state[target[r]] = "running"
    /\ volume' = [volume EXCEPT ![target[r]] = "attached"]
    /\ Goto(r, "group_new")
    /\ UNCHANGED <<dynamo, state, owner, ingress, event, target, faults>>

\* With or without an address the desktop is recorded.
PutItem(r) ==
    /\ At(r, "wait_new")
    /\ record' = [record EXCEPT ![user[r]] = target[r]]
    /\ \/ state[target[r]] \in {"pending", "running"} /\ Goto(r, "201")
       \/ Goto(r, "202")
    /\ UNCHANGED <<since, ec2, ingress, event, target, faults>>

\* A call raises (no spot capacity, an instance lost while it is waited for),
\* or the invocation ends at the Lambda timeout: nothing is undone.
Dies(r) ==
    /\ Active(r)
    /\ Fault(r)
    /\ Goto(r, "failed")
    /\ UNCHANGED <<dynamo, ec2, ingress, event, target>>

----------------------------------------------------------------------------
(* EC2, the idle check and the clock. *)

Becomes(i, from, to) ==
    /\ state[i] \in from
    /\ state' = [state EXCEPT ![i] = to]
    /\ UNCHANGED <<dynamo, owner, volume, ingress, pc, event, target, faults>>

Boot(i)     == Becomes(i, {"pending"}, "running")
IdleStop(i) == Becomes(i, {"running"}, "stopping")
Stopped(i)  == Becomes(i, {"stopping"}, "stopped")
Forget(i)   == Becomes(i, {"terminated"}, "gone")

\* Spot interruption, or an operator: the data volume outlives the instance.
Interrupt(i) ==
    /\ state[i] \in {"pending", "running", "stopping", "stopped"}
    /\ state' = [state EXCEPT ![i] = "terminated"]
    /\ volume' = [volume EXCEPT ![i] = IF @ = "attached" THEN "loose" ELSE @]
    /\ UNCHANGED <<dynamo, owner, ingress, pc, event, target, faults>>

\* An age above RateLimit tells no more than RateLimit.
Tick ==
    /\ since' = [a \in Ips |-> IF since[a] < RateLimit THEN since[a] + 1 ELSE RateLimit]
    /\ UNCHANGED <<record, ec2, ingress, pc, event, target, faults>>

Step(r) ==
    \/ CheckRateLimit(r) \/ RecordRateLimit(r) \/ Lookup(r) \/ Describe(r)
    \/ DeleteRecord(r) \/ StartInstance(r) \/ ReadGroup(r) \/ AddToGroup(r)
    \/ AddDuplicate(r) \/ WaitStarted(r) \/ UpdateItem(r) \/ RunInstance(r)
    \/ CreateVolume(r) \/ AttachVolume(r) \/ PutItem(r) \/ Dies(r)

Next ==
    \/ \E r \in Reqs, u \in Users, a \in Ips : Post(r, u, a)
    \/ \E r \in Reqs : Step(r)
    \/ \E i \in Insts : Boot(i) \/ IdleStop(i) \/ Stopped(i) \/ Forget(i) \/ Interrupt(i)
    \/ Tick

Spec == Init /\ [][Next]_vars

----------------------------------------------------------------------------
(* Properties. *)

TypeOK ==
    /\ since \in [Ips -> 0..RateLimit]
    /\ record \in [Users -> {NoInst, Partial} \cup Insts]
    /\ state \in [Insts -> {"unused", "pending", "running", "stopping", "stopped",
                            "terminated", "gone"}]
    /\ owner \in [Insts -> Users \cup {None}]
    /\ volume \in [Insts -> {"none", "loose", "attached"}]
    /\ ingress \subseteq Ips
    /\ user \in [Reqs -> Users \cup {None}] /\ ip \in [Reqs -> Ips \cup {None}]
    /\ target \in [Reqs -> {NoInst} \cup Insts]
    /\ faults \in [Users -> Nat] /\ overlaps \in [Users -> Nat]

Alive(i) == state[i] \in {"pending", "running", "stopping", "stopped"}
Mine(u)  == {i \in Insts : Alive(i) /\ owner[i] = u}
Tended(i) == \E r \in Reqs : Active(r) /\ target[r] = i

\* A record leads to a desktop of that user which has its data volume, as
\* handler hands it out to whoever gives the user's name.  A record without
\* instance_id, which makes every later request of the user raise, comes only
\* of two requests of that user at the same time.
RecordSound ==
    \A u \in Users :
       /\ record[u] \in Insts => /\ owner[record[u]] = u
                                 /\ Alive(record[u]) => volume[record[u]] = "attached"
       /\ record[u] = Partial => overlaps[u] > 0

\* An instance that costs money and that no record or request knows of is the
\* trace of a failure or of a request that did not wait for the one before:
\* there are not more of them than calls that failed, invocations that died and
\* requests that overlapped.
NoOrphans ==
    \A u \in Users :
       Cardinality({i \in Mine(u) : record[u] # i /\ ~Tended(i)}) <= faults[u] + overlaps[u]

\* A user has one desktop, and one more at most for each call that failed,
\* invocation that died and request that overlapped.
OneDesktop ==
    \A u \in Users : Cardinality(Mine(u)) <= 1 + faults[u] + overlaps[u]
=============================================================================
