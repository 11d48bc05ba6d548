----------------------------- MODULE AuditTrail -----------------------------
(***************************************************************************)
(* The risk-decision audit trail (risk_audit.py) and the anchors of its    *)
(* chain head (audit_anchor.py), over any number of service processes that *)
(* write to it one after the other.  A process checks the trail against    *)
(* the anchors before it runs, appends a record per decision, anchors the  *)
(* head every AnchorEvery records and when it stops.                       *)
(*                                                                         *)
(* Abstractions.  A hash is a number no other record has, so that a record *)
(* always matches its own hash; the content of a record is left out.  A    *)
(* line of the file is a record or unreadable, and the last one may lack   *)
(* its newline.  The service awaits every append and every publication, so *)
(* a process has one of them in progress.                                  *)
(***************************************************************************)
EXTENDS Integers, Sequences

CONSTANTS
    Sinks,         \* the anchor sinks: "local", and "redis" if configured
    Anchoring,     \* the values of audit_anchor_enabled a process may run with
    AnchorEvery,   \* anchor_every
    MaxLines,      \* bound on the lines of the trail
    MaxFaults      \* bound on failed appends and publications

ASSUME TrailAssumption ==
    /\ Sinks \subseteq {"local", "redis"}
    /\ Anchoring \subseteq BOOLEAN
    /\ AnchorEvery \in Nat \ {0}
    /\ MaxLines \in Nat
    /\ MaxFaults \in Nat

VARIABLES
    lines,         \* the trail on disk
    stores,        \* the anchors each sink holds
    broken,        \* the sinks whose content cannot be parsed any more
    phase,         \* where the process stands
    anchoring,     \* audit_anchor_enabled of the process
    resumed,       \* _resumed
    head,          \* _sequence and _last_hash
    lastAnchored,  \* _last_anchored_sequence
    pending,       \* the anchor being published
    todo,          \* the sinks it was not yet sent to
    lapsed,        \* the last anchor published reached no sink
    minted,        \* hashes computed so far
    faults,        \* failures so far
    slipped,       \* an append of this process failed and left bytes in the
                   \* trail, or continued a line without its newline
    damaged        \* some append failed or was cut short and left bytes

memory == <<anchoring, resumed, head, lastAnchored>>
publication == <<pending, todo, lapsed>>
history == <<slipped, damaged>>
vars == <<lines, stores, broken, phase, anchoring, resumed, head, lastAnchored,
          pending, todo, lapsed, minted, faults, slipped, damaged>>

Genesis == 0

Line ==
    [kind : {"record", "garbage"}, ended : BOOLEAN, seq : Nat, prev : Nat, hash : Nat]
Anchor == [seq : Nat, hash : Nat]

Unreadable(ended) ==
    [kind |-> "garbage", ended |-> ended, seq |-> 0, prev |-> 0, hash |-> 0]

NoHead == [seq |-> -1, hash |-> Genesis]
NoAnchor == [seq |-> 0, hash |-> 0]

Stopped == {"down", "halted", "stopped"}
Running == {"idle", "anchor", "publish", "lastAnchor", "lastPublish"}

TrailTypeOK ==
    /\ lines \in Seq(Line)
    /\ stores \in [Sinks -> SUBSET Anchor]
    /\ broken \subseteq Sinks
    /\ phase \in Stopped \cup Running
    /\ anchoring \in BOOLEAN /\ resumed \in BOOLEAN /\ lapsed \in BOOLEAN
    /\ slipped \in BOOLEAN /\ damaged \in BOOLEAN
    /\ head \in [seq : Nat \cup {-1}, hash : Nat]
    /\ lastAnchored \in Nat \cup {-1}
    /\ pending \in Anchor
    /\ todo \subseteq Sinks
    /\ minted \in Nat
    /\ faults \in Nat

TrailInit ==
    /\ lines = <<>>
    /\ stores = [s \in Sinks |-> {}]
    /\ broken = {}
    /\ phase = "down"
    /\ anchoring = FALSE
    /\ resumed = FALSE
    /\ head = NoHead
    /\ lastAnchored = -1
    /\ pending = NoAnchor
    /\ todo = {}
    /\ lapsed = FALSE
    /\ minted = 0
    /\ faults = 0
    /\ slipped = FALSE
    /\ damaged = FALSE

-----------------------------------------------------------------------------
(***************************************************************************)
(* The file.                                                               *)
(***************************************************************************)
LastLine == lines[Len(lines)]

EndsReadable == lines # <<>> /\ LastLine.kind = "record"

EndsOpen == lines # <<>> /\ ~ LastLine.ended

(* append_jsonl of a whole line: it continues one without its newline. *)
Written(line) ==
    IF EndsOpen THEN [lines EXCEPT ![Len(lines)] = Unreadable(TRUE)]
    ELSE Append(lines, line)

(* append_jsonl cut short: within the record, or just before its newline. *)
Torn(line) ==
    IF EndsOpen THEN {[lines EXCEPT ![Len(lines)] = Unreadable(FALSE)]}
    ELSE {Append(lines, Unreadable(FALSE)), Append(lines, [line EXCEPT !.ended = FALSE])}

(* The hash the i-th record has to name. *)
HashBefore(i) == IF i = 1 THEN Genesis ELSE lines[i - 1].hash

(* verify_chain *)
VerifyChain ==
    \A i \in 1 .. Len(lines) :
        /\ lines[i].kind = "record"
        /\ lines[i].seq = i - 1
        /\ lines[i].prev = HashBefore(i)

(* verify_with_anchors, for one anchor and a trail whose chain is intact. *)
AnchorMatches(a) == a.seq < Len(lines) /\ lines[a.seq + 1].hash = a.hash

-----------------------------------------------------------------------------
(***************************************************************************)
(* Start.  A sink that cannot be read is skipped.                          *)
(***************************************************************************)

(* Mutation: without an anchor to compare with, the trail is not verified. *)
GateAcceptsUnanchored(reached) ==
    \/ \A s \in reached : stores[s] = {}
    \/ /\ VerifyChain
       /\ \A s \in reached : \A a \in stores[s] : AnchorMatches(a)

(* assert_trail_matches_anchors *)
GateAccepts(reached) ==
    /\ VerifyChain
    /\ \A s \in reached : \A a \in stores[s] : AnchorMatches(a)

Start(enabled, reached) ==
    /\ phase \in Stopped
    /\ phase' = IF enabled /\ ~ GateAccepts(reached) THEN "halted" ELSE "idle"
    /\ anchoring' = enabled
    /\ resumed' = FALSE
    /\ head' = NoHead
    /\ lastAnchored' = -1
    /\ lapsed' = FALSE
    /\ slipped' = FALSE
    /\ UNCHANGED <<lines, stores, broken, pending, todo, minted, faults, damaged>>

-----------------------------------------------------------------------------
(***************************************************************************)
(* record, with _resume before the first one.                              *)
(***************************************************************************)

(* _resume meets a last line it cannot parse. *)
ResumeRaises == ~ resumed /\ lines # <<>> /\ ~ EndsReadable

(* Mutation: the chain is not picked up from the file. *)
ResumedHeadFresh == head

ResumedHead ==
    IF resumed \/ lines = <<>> THEN head
    ELSE [seq |-> LastLine.seq, hash |-> LastLine.hash]

NextRecord ==
    [kind |-> "record", ended |-> TRUE, seq |-> ResumedHead.seq + 1,
     prev |-> ResumedHead.hash, hash |-> minted + 1]

Recording ==
    /\ phase = "idle"
    /\ Len(lines) < MaxLines
    /\ ~ ResumeRaises
    /\ minted' = minted + 1

(* _resumed is set before the line is parsed: the next record starts anew. *)
RecordUnresumed ==
    /\ phase = "idle"
    /\ ResumeRaises
    /\ resumed' = TRUE
    /\ UNCHANGED <<lines, stores, broken, phase, anchoring, head, lastAnchored,
                   publication, minted, faults, history>>

(* Mutation: the interval is counted one record too long. *)
DueAfter(sequence) == sequence - lastAnchored > AnchorEvery

(* maybe_publish *)
Due(sequence) == sequence - lastAnchored >= AnchorEvery

Record ==
    /\ Recording
    /\ lines' = Written(NextRecord)
    /\ resumed' = TRUE
    /\ head' = [seq |-> NextRecord.seq, hash |-> NextRecord.hash]
    /\ phase' = IF anchoring /\ Due(NextRecord.seq) THEN "anchor" ELSE "idle"
    /\ slipped' = (slipped \/ EndsOpen)
    /\ UNCHANGED <<stores, broken, anchoring, lastAnchored, publication, faults,
                   damaged>>

(* The write or the fsync raises: the cycle fails, the process goes on. *)
RecordFails ==
    /\ Recording
    /\ faults < MaxFaults
    /\ faults' = faults + 1
    /\ lines' \in {lines, Written(NextRecord)} \cup Torn(NextRecord)
    /\ resumed' = TRUE
    /\ head' = ResumedHead
    /\ slipped' = (slipped \/ lines' # lines)
    /\ damaged' = (damaged \/ lines' # lines)
    /\ UNCHANGED <<stores, broken, phase, anchoring, lastAnchored, publication>>

(* The process dies in the middle of the append. *)
RecordCrashes ==
    /\ Recording
    /\ faults < MaxFaults
    /\ faults' = faults + 1
    /\ \/ lines' \in Torn(NextRecord) /\ damaged' = TRUE
       \/ lines' = Written(NextRecord) /\ UNCHANGED damaged
    /\ phase' = "down"
    /\ UNCHANGED <<stores, broken, memory, publication, slipped>>

-----------------------------------------------------------------------------
(***************************************************************************)
(* publish_now: the head is read from the file and sent to each sink.      *)
(***************************************************************************)

(* Mutation: an anchor carries the number of records, not the sequence. *)
HeadAnchorCount == [seq |-> Len(lines), hash |-> LastLine.hash]

HeadAnchor == [seq |-> LastLine.seq, hash |-> LastLine.hash]

BeginPublication ==
    /\ phase \in {"anchor", "lastAnchor"}
    /\ EndsReadable
    /\ pending' = HeadAnchor
    /\ todo' = Sinks
    /\ lapsed' = TRUE
    /\ phase' = IF phase = "anchor" THEN "publish" ELSE "lastPublish"
    /\ UNCHANGED <<lines, stores, broken, memory, minted, faults, history>>

(* No record yet, or head_anchor raises on an unreadable last line. *)
NothingToPublish ==
    /\ phase \in {"anchor", "lastAnchor"}
    /\ ~ EndsReadable
    /\ phase' = IF phase = "anchor" THEN "idle" ELSE "down"
    /\ UNCHANGED <<lines, stores, broken, memory, publication, minted, faults, history>>

(* Redis keeps the latest anchor, the local file all of them. *)
Stored(s) ==
    [stores EXCEPT ![s] = IF s = "local" THEN @ \cup {pending} ELSE {pending}]

Publish(s) ==
    /\ phase \in {"publish", "lastPublish"}
    /\ s \in todo
    /\ stores' = Stored(s)
    /\ todo' = todo \ {s}
    /\ lapsed' = FALSE
    /\ UNCHANGED <<lines, broken, phase, memory, pending, minted, faults, history>>

(* FanoutAuditAnchorSink counts the failure and goes on to the next sink. *)
PublishFails(s) ==
    /\ phase \in {"publish", "lastPublish"}
    /\ s \in todo
    /\ faults < MaxFaults
    /\ faults' = faults + 1
    /\ stores' \in {stores, Stored(s)}
    /\ broken' \in {broken, broken \cup ({s} \cap {"local"})}
    /\ todo' = todo \ {s}
    /\ UNCHANGED <<lines, phase, memory, pending, lapsed, minted, history>>

(* The interval starts anew, whether or not a sink took the anchor. *)
EndPublication ==
    /\ phase \in {"publish", "lastPublish"}
    /\ todo = {}
    /\ lastAnchored' = pending.seq
    /\ phase' = IF phase = "publish" THEN "idle" ELSE "stopped"
    /\ UNCHANGED <<lines, stores, broken, anchoring, resumed, head, publication,
                   minted, faults, history>>

-----------------------------------------------------------------------------
(* run leaves its loop; its finally clause anchors the last head. *)
Stop ==
    /\ phase = "idle"
    /\ phase' = IF anchoring THEN "lastAnchor" ELSE "down"
    /\ UNCHANGED <<lines, stores, broken, memory, publication, minted, faults, history>>

TrailCrash ==
    /\ phase \in Running
    /\ phase' = "down"
    /\ UNCHANGED <<lines, stores, broken, memory, publication, minted, faults, history>>

TrailNext ==
    \/ \E enabled \in Anchoring, reached \in SUBSET (Sinks \ broken) :
          Start(enabled, reached)
    \/ RecordUnresumed \/ Record \/ RecordFails \/ RecordCrashes
    \/ BeginPublication \/ NothingToPublish \/ EndPublication
    \/ \E s \in Sinks : Publish(s) \/ PublishFails(s)
    \/ Stop \/ TrailCrash

TrailSpec == TrailInit /\ [][TrailNext]_vars

-----------------------------------------------------------------------------
(***************************************************************************)
(* Properties.                                                             *)
(***************************************************************************)

(* "Restarts keep the chain" (_resume, risk_audit.py:113): crashes,        *)
(* including one between the write of a record and the update of the       *)
(* writer's memory, leave a trail verify_chain accepts, as long as no      *)
(* append was left half done.                                              *)
ChainIntact == ~ damaged => VerifyChain

(* The startup gate never halts a service over a trail the service wrote   *)
(* itself: whatever subset of the sinks can be read, no anchor is ahead of *)
(* the file or names another record.                                       *)
NeverLocksItselfOut ==
    ~ damaged => \A reached \in SUBSET Sinks : GateAccepts(reached)

(* A trail that does not verify is caught "before new records are appended *)
(* onto a forked chain" (assert_trail_matches_anchors): under anchoring a  *)
(* process appends to a valid chain, whatever earlier processes, anchored  *)
(* or not, left in the file, until an append of its own fails or, the case *)
(* the gate cannot see, continues a record without its newline.            *)
ForksAreOwn == phase \in Running /\ anchoring /\ ~ slipped => VerifyChain

(* The newest record a sink vouches for. *)
Anchored(i) == \E s \in Sinks : \E a \in stores[s] : a.seq >= i

(* The head is anchored every anchor_every records: once a process has     *)
(* anchored, and its last anchor reached a sink, fewer than AnchorEvery    *)
(* records are without one, crashes and unanchored runs before it included *)
(* (AuditAnchorPublisher).                                                 *)
TailBounded ==
    phase = "idle" /\ lastAnchored # -1 /\ ~ lapsed /\ ~ damaged
        => (Len(lines) >= AnchorEvery => Anchored(Len(lines) - AnchorEvery))

-----------------------------------------------------------------------------
(***************************************************************************)
(* The inductive invariant.                                                *)
(***************************************************************************)

(* The trails that must verify: those no append has hurt, and those a      *)
(* process has checked and not hurt itself.                                *)
Trusted == ~ damaged \/ (phase \in Running /\ anchoring /\ ~ slipped)

(* The writer knows the end of the chain, once it has read it. *)
WriterAtEnd ==
    phase \in Running =>
        IF resumed
        THEN head.seq = Len(lines) - 1 /\ head.hash = HashBefore(Len(lines) + 1)
        ELSE head = NoHead

ChainInv == Trusted => VerifyChain /\ WriterAtEnd

(* Every anchor, and the one being published, names a record of the file. *)
AnchorInv ==
    ~ damaged =>
        /\ \A s \in Sinks : \A a \in stores[s] : AnchorMatches(a)
        /\ phase \in {"publish", "lastPublish"} => AnchorMatches(pending)

(* Only a damaged trail ends without a newline. *)
EndInv == ~ damaged => ~ EndsOpen

TrailInv == TrailTypeOK /\ ChainInv /\ AnchorInv /\ EndInv
=============================================================================
