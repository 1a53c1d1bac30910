------------------------------- MODULE PodApi -------------------------------
(***************************************************************************)
(* The podapi suite (podapi.rs): a probe pod keeps looking at what it may  *)
(* do and holds a watch, and says what it sees in its log; the driver      *)
(* grants and removes a Role, makes and deletes a marker pod, at last      *)
(* deletes the probe, and judges by the log. What the driver changes takes *)
(* effect some time later.                                                 *)
(***************************************************************************)
EXTENDS Naturals, Sequences

CONSTANTS
  Faults,    \* bound: requests that get no answer
  Harms      \* bound: what goes wrong in the cluster

Items ==
  {"facts",            \* mounted/files ... downward/env: the eleven of its first log
   "token-review", "other-audience", "refused", "granted", "revoked", "stream",
   "volume", "optout", "rotated", "after-delete"}

Verbs == {"get", "watch"}

\* What a look is answered; 0 is no answer, and NoLook is no code.
Codes == {0, 200, 403}

NoLook == 1

VARIABLES
  \* the cluster
  bound,     \* the verbs a Role and its RoleBinding give the pod's account
  allowed,   \* what the apiserver lets it do by now
  marker,    \* none | there | gone: the marker pod
  pod,       \* none | there | dead | gone: the probe pod
  valid,     \* the apiserver takes the token bound to it
  \* the probe
  polls,     \* it has a client, and its pollers run
  look,      \* the first of poll_rbac's two answers, while the second is due
  said,      \* its last rbac line
  conn,      \* the watch: what its log says, and what is on its way
  \* the driver
  pc, lines,
  tokens,    \* none | fetched | blank: fetched, the reviewer's own is an empty string
  faults, harms,
  \* ghosts
  turns,     \* how far GET a pod got through: refused, granted, refused again
  heard      \* the marker's events, each with the number of its connection

cluster == <<bound, allowed, marker, pod, valid>>

probe == <<polls, look, said, conn, turns, heard>>

driver == <<pc, tokens, lines>>

vars == <<cluster, probe, driver, faults, harms>>

\* What an item's line says: a pass, anything else, or whichever where the two
\* are not told apart.
Verdicts == {"pass", "fail", "told"}

Connection ==
  [ open : BOOLEAN, opens : Nat, ended : Nat, queue : Seq({"ADDED", "DELETED"}),
    saw : SUBSET {"ADDED", "DELETED"} ]

TypeOK ==
  /\ bound \subseteq Verbs /\ allowed \subseteq Verbs \cup {"secrets"}
  /\ marker \in {"none", "there", "gone"} /\ pod \in {"none", "there", "dead", "gone"}
  /\ valid \in BOOLEAN
  /\ polls \in BOOLEAN /\ look \in Codes \cup {NoLook}
  /\ said \in (Codes \X Codes) \cup {<<>>}
  /\ conn \in Connection
  /\ pc \in {"start", "unstarted", "facts", "tokens", "review", "refused", "grant", "granted", "ungrant",
             "revoked", "watch", "open", "mark", "hold", "deleted", "unwatch", "volume",
             "rotated", "before", "delete", "gone", "after", "done"}
  /\ tokens \in {"none", "fetched", "blank"} /\ lines \in [Items -> Verdicts \cup {"none", "twice"}]
  /\ faults \in 0..Faults /\ harms \in 0..Harms
  /\ turns \in 0..3 /\ heard \subseteq {"ADDED", "DELETED"} \X Nat

Init ==
  /\ bound = {} /\ allowed = {} /\ marker = "none" /\ pod = "none" /\ valid = FALSE
  /\ polls = FALSE /\ look = NoLook /\ said = <<>>
  /\ conn = [ open |-> FALSE, opens |-> 0, ended |-> 0, queue |-> <<>>, saw |-> {} ]
  /\ pc = "start" /\ tokens = "none" /\ lines = [i \in Items |-> "none"]
  /\ faults = Faults /\ harms = Harms
  /\ turns = 0 /\ heard = {}

Fault == faults > 0 /\ faults' = faults - 1

Harm == harms > 0 /\ harms' = harms - 1

-----------------------------------------------------------------------------
(* The cluster *)

\* The apiserver comes to allow what is bound; or it lets the pod list Secrets.
Authorize ==
  /\ \/ allowed # bound /\ allowed' = bound /\ UNCHANGED harms
     \/ "secrets" \notin allowed /\ allowed' = allowed \cup {"secrets"} /\ Harm
  /\ UNCHANGED <<bound, marker, pod, valid, probe>>

\* A token dies some time after its pod.
Expire ==
  /\ valid /\ pod = "gone" /\ valid' = FALSE
  /\ UNCHANGED <<bound, allowed, marker, pod, harms, probe>>

\* The probe dies, or is evicted, before its time.
KillProbe ==
  /\ pod = "there" /\ Harm /\ pod' \in {"dead", "gone"}
  /\ UNCHANGED <<bound, allowed, marker, valid, probe>>

Environment ==
  /\ pc \notin {"unstarted", "done"}
  /\ Authorize \/ Expire \/ KillProbe
  /\ UNCHANGED <<driver, faults>>

-----------------------------------------------------------------------------
(* The probe *)

Polls == polls /\ pod = "there"

\* A look after the rbac items, or an event after the stream's, is read by nobody
\* and left out.
LooksAreRead == pc \in {"facts", "tokens", "review", "refused", "grant", "granted", "ungrant",
                        "revoked"}

WatchIsRead == pc \in {"open", "mark", "hold", "deleted"}

Answer(verb, code) ==
  \/ code = (IF verb \in allowed THEN 200 ELSE 403) /\ UNCHANGED faults
  \/ code = 0 /\ Fault

\* poll_rbac: GET the pod, then LIST Secrets; a line when the pair is another.
LookGet ==
  /\ Polls /\ LooksAreRead /\ look = NoLook
  /\ \E code \in Codes :
       /\ Answer("get", code) /\ look' = code
       /\ turns' = IF turns < 3 /\ code = (IF turns = 1 THEN 200 ELSE 403) THEN turns + 1 ELSE turns
  /\ UNCHANGED <<cluster, polls, said, conn, heard, driver, harms>>

LookList ==
  /\ Polls /\ LooksAreRead /\ look # NoLook /\ look' = NoLook
  /\ \E code \in Codes : Answer("secrets", code) /\ said' = <<look, code>>
  /\ UNCHANGED <<cluster, polls, conn, turns, heard, driver, harms>>

\* hold_watch: it opens once it may, and first hears of the pods there are.
OpenWatch ==
  /\ Polls /\ WatchIsRead /\ ~conn.open /\ "watch" \in allowed
  /\ conn' = [conn EXCEPT !.open = TRUE, !.opens = @ + 1,
                          !.queue = IF marker = "there" THEN <<"ADDED">> ELSE <<>>]
  /\ UNCHANGED <<cluster, polls, look, said, turns, heard, driver, faults, harms>>

Hear ==
  /\ Polls /\ WatchIsRead /\ conn.open /\ conn.queue # <<>>
  /\ conn' = [conn EXCEPT !.queue = Tail(@), !.saw = @ \cup {Head(conn.queue)}]
  /\ heard' = heard \cup {<<Head(conn.queue), conn.opens>>}
  /\ UNCHANGED <<cluster, polls, look, said, turns, driver, faults, harms>>

\* The connection ends, and what was on its way is lost.
EndWatch ==
  /\ Polls /\ WatchIsRead /\ conn.open /\ Harm
  /\ conn' = [conn EXCEPT !.open = FALSE, !.ended = @ + 1, !.queue = <<>>]
  /\ UNCHANGED <<cluster, polls, look, said, turns, heard, driver, faults>>

\* An open watch is sent what happens to the marker; it may be late.
Sent(e) == conn' = [conn EXCEPT !.queue = IF @ = <<>> /\ ~conn.open THEN @ ELSE Append(@, e)]

-----------------------------------------------------------------------------
(* The driver *)

At(p) == pc = p

Goto(p) == pc' = p

Emit(v) ==
  lines' = [i \in Items |-> IF i \notin DOMAIN v THEN lines[i]
                            ELSE IF lines[i] = "none" THEN v[i] ELSE "twice"]

Line(i, v) == [j \in {i} |-> v]

All(is, v) == [j \in is |-> v]

\* The driver changes nothing in the cluster or the probe.
Looks == UNCHANGED <<cluster, probe, harms>>

Unsaid == <<>>

NoConnection == [ open |-> FALSE, opens |-> 0, ended |-> 0, queue |-> <<>>, saw |-> {} ]

\* The probe's log: its lines, or none when it is not read.
Logs == { [rbac |-> said, watch |-> conn], [rbac |-> Unsaid, watch |-> NoConnection] }

Read(log) == IF log = [rbac |-> said, watch |-> conn] THEN UNCHANGED faults ELSE Fault

\* checks: before the probe reports, every item could not run. Without a client
\* to ask with, it does not come to that: a line of the API alone is told.
Start ==
  /\ At("start")
  /\ \/ /\ pod' = "there" /\ valid' = TRUE /\ polls' \in BOOLEAN
        /\ Goto("facts") /\ UNCHANGED lines
     \/ /\ Goto("done") /\ Emit(All(Items, "fail"))
        /\ UNCHANGED <<pod, valid, polls>>
     \/ /\ Goto("unstarted") /\ UNCHANGED <<lines, pod, valid, polls>>
  /\ UNCHANGED <<bound, allowed, marker, look, said, conn, turns, heard, tokens,
                 faults, harms>>

\* The items of the first log.
Facts ==
  /\ At("facts") /\ Goto("tokens") /\ Emit(Line("facts", "told"))
  /\ Looks /\ UNCHANGED <<tokens, faults>>

\* The tokens, from the pod; without them two items are told of now.
FetchTokens ==
  /\ At("tokens")
  /\ \/ pod = "there" /\ tokens' = "fetched" /\ Goto("review") /\ UNCHANGED lines
     \/ /\ tokens' = "none" /\ Goto("refused")
        /\ Emit(All({"token-review", "other-audience"}, "fail"))
  /\ Looks /\ UNCHANGED faults

\* The review, as a reviewer whose token is asked for first. If that is an empty
\* string, nothing is told of the review.
Review ==
  /\ At("review") /\ Goto("refused")
  /\ \/ Emit(All({"token-review", "other-audience"}, "told")) /\ UNCHANGED <<tokens, harms>>
     \/ Emit(Line("other-audience", "told")) /\ tokens' = "blank" /\ Harm
  /\ UNCHANGED <<cluster, probe, faults>>

-----------------------------------------------------------------------------
(* The driver: rbac *)

\* The first answers it says; nothing said in time is a failure.
Refused ==
  /\ At("refused") /\ Goto("grant")
  /\ \E log \in Logs :
       /\ Read(log)
       /\ Emit(Line("refused", IF log.rbac = <<403, 403>> THEN "pass" ELSE "fail"))
  /\ Looks /\ UNCHANGED <<tokens>>

\* Without a grant there is nothing to revoke, either.
NothingGranted == Emit(All({"granted", "revoked"}, "fail"))

\* A Role and its RoleBinding; given up on, they may still be there, and are
\* deleted as well as can be.
GrantGet ==
  /\ At("grant")
  /\ \/ bound' = bound \cup {"get"} /\ Goto("granted") /\ UNCHANGED <<lines, faults>>
     \/ /\ Fault /\ bound' \in {bound, bound \cup {"get"}} /\ Goto("watch")
        /\ NothingGranted
  /\ UNCHANGED <<allowed, marker, pod, valid, probe, tokens, harms>>

\* GET a pod is 200 in the last line, or time is up.
Granted ==
  /\ At("granted") /\ Goto("ungrant")
  /\ \E log \in Logs :
       /\ Read(log)
       /\ Emit(Line("granted", IF log.rbac = <<200, 403>> THEN "pass" ELSE "fail"))
  /\ Looks /\ UNCHANGED <<tokens>>

\* delete_rbac: what it comes to is not looked at.
DeleteRbac(verb, from, to) ==
  /\ At(from) /\ Goto(to)
  /\ \/ bound' = bound \ {verb} /\ UNCHANGED faults
     \/ UNCHANGED bound /\ Fault
  /\ UNCHANGED <<allowed, marker, pod, valid, probe, tokens, lines, harms>>

NotAllowed(line) == line # Unsaid /\ line[1] # 200

RefusedAgain(line) == line # Unsaid /\ line[1] = 403

Revoked ==
  /\ At("revoked") /\ Goto("watch")
  /\ \E log \in Logs :
       /\ Read(log)
       /\ Emit(Line("revoked", IF RefusedAgain(log.rbac) THEN "pass" ELSE "fail"))
  /\ Looks /\ UNCHANGED <<tokens>>

-----------------------------------------------------------------------------
(* The driver: the watch *)

GrantWatch ==
  /\ At("watch")
  /\ \/ bound' = bound \cup {"watch"} /\ Goto("open") /\ UNCHANGED <<lines, faults>>
     \/ /\ Fault /\ bound' \in {bound, bound \cup {"watch"}} /\ Goto("unwatch")
        /\ Emit(Line("stream", "fail"))
  /\ UNCHANGED <<allowed, marker, pod, valid, probe, tokens, harms>>

\* It says that it is open; it never opened, in time or in what is read.
WaitOpen ==
  /\ At("open")
  /\ \/ conn.opens > 0 /\ Goto("mark") /\ UNCHANGED lines
     \/ Goto("unwatch") /\ Emit(Line("stream", "fail"))
  /\ Looks /\ UNCHANGED <<tokens, faults>>

CreateMarker ==
  /\ At("mark")
  /\ \/ /\ marker' = "there" /\ Sent("ADDED") /\ Goto("hold")
        /\ UNCHANGED <<lines, faults>>
     \/ /\ Fault /\ Goto("unwatch") /\ Emit(Line("stream", "fail"))
        /\ UNCHANGED <<marker, conn>>
  /\ UNCHANGED <<bound, allowed, pod, valid, polls, look, said, turns, heard, tokens, harms>>

\* After the hold, its delete: what it comes to is not looked at.
DeleteMarker ==
  /\ At("hold") /\ Goto("deleted")
  /\ \/ marker' = "gone" /\ Sent("DELETED") /\ UNCHANGED faults
     \/ UNCHANGED <<marker, conn>> /\ Fault
  /\ UNCHANGED <<bound, allowed, pod, valid, polls, look, said, turns, heard, tokens,
                 lines, harms>>

\* judge_watch: both events, on one connection that is still open.
JudgeWatch(c) == c.saw = {"ADDED", "DELETED"} /\ c.opens = 1 /\ c.ended = 0

WaitDeleted ==
  /\ At("deleted") /\ Goto("unwatch")
  /\ \E log \in Logs :
       /\ Read(log)
       /\ Emit(Line("stream", IF JudgeWatch(log.watch) THEN "pass" ELSE "fail"))
  /\ Looks /\ UNCHANGED <<tokens>>

-----------------------------------------------------------------------------
(* The driver: the pods that end by themselves, the rotation, and the end *)

\* downward/volume and optout/*, each on pods of its own; openshift/* is skipped.
OtherPods ==
  /\ At("volume") /\ Goto("rotated")
  /\ Emit(All({"volume", "optout"}, "told"))
  /\ Looks /\ UNCHANGED <<tokens, faults>>

\* The custom token was rewritten in time, or not. Without a token to try, the
\* last item could not run.
Rotated ==
  /\ At("rotated")
  /\ IF tokens # "none" THEN Goto("before") /\ Emit(Line("rotated", "told"))
     ELSE Goto("done") /\ Emit([i \in {"rotated", "after-delete"} |->
                                 IF i = "rotated" THEN "told" ELSE "fail"])
  /\ Looks /\ UNCHANGED <<tokens, faults>>

\* A request of after_delete's fails.
AfterFails ==
  /\ pc \in {"before", "delete", "gone", "after"} /\ Goto("done")
  /\ Fault /\ Emit(Line("after-delete", "fail"))
  /\ Looks /\ UNCHANGED <<tokens>>

\* The token works while its pod is there;
TryBefore ==
  /\ At("before")
  /\ IF valid THEN Goto("delete") /\ UNCHANGED lines
     ELSE Goto("done") /\ Emit(Line("after-delete", "fail"))
  /\ Looks /\ UNCHANGED <<tokens, faults>>

DeleteProbe ==
  /\ At("delete") /\ Goto("gone") /\ pod' \in {"gone", pod}
  /\ UNCHANGED <<bound, allowed, marker, valid, probe, tokens, lines, faults, harms>>

\* the pod goes, in time;
WaitGone ==
  /\ At("gone")
  /\ \/ pod = "gone" /\ Goto("after") /\ UNCHANGED lines
     \/ pod # "gone" /\ Goto("done") /\ Emit(Line("after-delete", "fail"))
  /\ Looks /\ UNCHANGED <<tokens, faults>>

\* and the token is refused, in time.
TryAfter ==
  /\ At("after") /\ Goto("done")
  /\ Emit(Line("after-delete", IF valid THEN "fail" ELSE "pass"))
  /\ Looks /\ UNCHANGED <<tokens, faults>>

Driver ==
  \/ Start \/ Facts \/ FetchTokens \/ Review
  \/ Refused \/ GrantGet \/ Granted \/ DeleteRbac("get", "ungrant", "revoked") \/ Revoked
  \/ GrantWatch \/ WaitOpen \/ CreateMarker \/ DeleteMarker \/ WaitDeleted
  \/ DeleteRbac("watch", "unwatch", "volume")
  \/ OtherPods \/ Rotated \/ TryBefore \/ DeleteProbe \/ WaitGone \/ TryAfter \/ AfterFails

Next ==
  \/ Environment
  \/ LookGet \/ LookList \/ OpenWatch \/ Hear \/ EndWatch
  \/ Driver

Spec == Init /\ [][Next]_vars

-----------------------------------------------------------------------------
(* Properties *)

\* A run that has a client tells of each item, once: when it could not start,
\* when it ran, and when a grant, the tokens or the token's review failed - but
\* for a review that was not asked for, as the reviewer's token was empty.
ToldOnce ==
  pc = "done" =>
    \A i \in Items :
      \/ lines[i] \in Verdicts
      \/ i = "token-review" /\ tokens = "blank" /\ lines[i] = "none"

\* Where all three rbac items pass, GET a pod was refused to the pod, then
\* granted, and then refused again, though the log is of looks whose two answers
\* are of two moments. (`revoked` alone may be of a line from before the grant.)
RbacIsProof ==
  (\A i \in {"refused", "granted", "revoked"} : lines[i] = "pass") => turns = 3

\* A watch that passes heard of the marker's creation and deletion on the
\* connection that was open before the marker was made, though a watch that is
\* opened later hears of a marker that is there, too.
WatchIsProof ==
  lines["stream"] = "pass" => {<<"ADDED", 1>>, <<"DELETED", 1>>} \subseteq heard
=============================================================================
