---------------------------- MODULE StatusBoard ----------------------------
(***************************************************************************)
(* What the monitor promises to a reader of the table `targets`, with no   *)
(* thread, timer, transfer or memory in sight: the status shown for a      *)
(* target is one that a URL of that target gave, at some instant after it  *)
(* was asked on the target's behalf; editing a target never touches its    *)
(* status; a target that was removed never comes back.                     *)
(***************************************************************************)
EXTENDS TargetTable

CONSTANTS Outcome    \* what a request to a URL can come to

VARIABLES reach,     \* reach[u]: what a request answered now by u comes to
          asked,     \* asked[id]: the URLs asked for id and not yet answered
          heard      \* heard[id]: the answers obtained and not yet dealt with

boardVars == <<rows, nextId, reach, asked, heard>>

(* A target is up iff the request succeeded with a 2xx status. *)
IsUp(o) == ~o.err /\ o.status \in 200..299

BoardInit ==
  /\ TableInit
  /\ reach \in [Url -> Outcome]
  /\ asked = [id \in Id |-> {}]
  /\ heard = [id \in Id |-> {}]

(* Questions and answers may be dropped at any time. *)
Drop(id) ==
  /\ asked'[id] \subseteq asked[id]
  /\ heard'[id] \subseteq heard[id]

DropAll ==
  /\ asked' \in [Id -> SUBSET Url]
  /\ heard' \in [Id -> SUBSET Outcome]
  /\ \A id \in Id : Drop(id)

Create ==
  /\ \/ \E u \in Url, i \in Interval : Add(u, i)
     \/ AddFails
  /\ UNCHANGED <<reach, asked, heard>>

Edit ==
  /\ \E id \in Id, u \in Url, i \in Interval : Patch(id, u, i)
  /\ UNCHANGED <<reach, asked, heard>>

Remove ==
  /\ \E id \in Id : Delete(id)
  /\ UNCHANGED <<reach, asked, heard>>

Change ==
  /\ reach' \in [Url -> Outcome]
  /\ UNCHANGED <<rows, nextId, asked, heard>>

Ask(id) ==
  /\ Exists(id)
  /\ asked' = [asked EXCEPT ![id] = @ \cup {rows[id].url}]
  /\ UNCHANGED <<rows, nextId, reach, heard>>

(* The question may stay open: it was asked more than once. *)
Hear(id) == \E u \in asked[id] :
  /\ heard' = [heard EXCEPT ![id] = @ \cup {reach[u]}]
  /\ asked' \in {asked, [asked EXCEPT ![id] = @ \ {u}]}
  /\ UNCHANGED <<rows, nextId, reach>>

Publish(id) == \E o \in heard[id] :
  /\ SetUp(id, IsUp(o))
  /\ heard' \in {heard, [heard EXCEPT ![id] = @ \ {o}]}
  /\ UNCHANGED <<nextId, reach, asked>>

Forget ==
  /\ DropAll
  /\ UNCHANGED <<rows, nextId, reach>>

BoardNext ==
  \/ Create \/ Edit \/ Remove \/ Change \/ Forget
  \/ \E id \in Id : Ask(id) \/ Hear(id) \/ Publish(id)

BoardSpec == BoardInit /\ [][BoardNext]_boardVars

=============================================================================
