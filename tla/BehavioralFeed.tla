--------------------------- MODULE BehavioralFeed ---------------------------
(***************************************************************************)
(* From telemetry to evidence.  Suricata appends lines to an EVE log that    *)
(* is rotated and truncated; the EVE thread tails it from a durable          *)
(* checkpoint and folds each line into the feed's detectors; the reconcile   *)
(* thread drains the detections, attaches those about a known indicator to   *)
(* it as evidence, re-decides the indicator, and parks the others until      *)
(* their indicator is ingested.  The threads share the feed without a lock.  *)
(*                                                                          *)
(* Lines have one length and a number.  An "event" is a line that makes a    *)
(* detector fire, a "poison" one raises before it is folded, an "answer" one *)
(* when its query has been folded and a detector has fired.  The number is   *)
(* the identity of the detection, which is what the evidence's observation   *)
(* hash is computed from.  Offsets count lines.  A detection is [id, dst].   *)
(***************************************************************************)
EXTENDS Integers, FiniteSets, SequencesExt

CONSTANTS
    Values,          \* what detections are about: domains, addresses
    Indicators,      \* rows of the ledger's indicators, of any tenant
    Ingested,        \* those in the ledger at the start
    ValueOf,         \* [Indicators -> Values]
    Contents,        \* lines Suricata writes: [kind, dst]
    MaxLinesPerPass,
    MaxRetained,     \* max_retained_detections
    PerTarget,       \* detections parked for one target (64)
    Ttl,             \* pending_ttl_s
    MaxLines,        \* bound: lines written
    MaxResets,       \* bound: rotations and truncations
    MaxMishaps       \* bound: crashes, failed writes, raising calls

ASSUME FeedAssumption ==
    /\ IsFiniteSet(Values) /\ Ingested \subseteq Indicators
    /\ ValueOf \in [Indicators -> Values]
    /\ Contents \subseteq [kind : {"event", "malformed", "poison", "answer"}, dst : Values]
    /\ MaxLinesPerPass \in Nat \ {0} /\ MaxRetained \in Nat \ {0}
    /\ PerTarget \in Nat \ {0} /\ Ttl \in Nat
    /\ MaxLines \in Nat /\ MaxResets \in Nat /\ MaxMishaps \in Nat

VARIABLES
    logs,        \* the EVE files, the last one at the configured path
    written,     \* lines written so far
    tail,        \* the EVE thread: checkpoint in memory, and a pass's progress
    checkpoint,  \* the durable checkpoint
    retained,    \* _detections
    pending,     \* _pending_unknown: [Values -> Seq]
    sweep,       \* the reconcile thread in _attach_behavioral_evidence
    known,       \* indicators in the ledger
    evidence,    \* durable evidence: pairs of indicator and detection id
    counted,     \* detections some counter reports as dropped or expired
    folded,      \* lines folded into the feed, by any process: history
    lost,        \* detections that went uncounted: history
    skipped,     \* a file was taken for the one read before: history
    resets, mishaps

vars == <<logs, written, tail, checkpoint, retained, pending, sweep, known,
          evidence, counted, folded, lost, skipped, resets, mishaps>>

writer == <<logs, written, resets>>
feed == <<retained, pending, counted>>
ledger == <<known, evidence>>

Current == logs[Len(logs)]
NewFile(ino) == [ino |-> ino, gen |-> resets + 1, lines |-> <<>>, torn |-> FALSE]
NoPass == [fd |-> 0, pos |-> 0, left |-> 0]
NoSweep == [pc |-> "idle", map |-> <<>>, dets |-> <<>>, records |-> <<>>]

Ids(s) == {s[i].id : i \in DOMAIN s}
Mishap == mishaps < MaxMishaps /\ mishaps' = mishaps + 1

-----------------------------------------------------------------------------
(* The log.  A generation (gen) is what is written between two resets of the *)
(* file; nothing in the system can see it.                                   *)

WriteLine(c) ==
    /\ written < MaxLines /\ ~Current.torn
    /\ written' = written + 1
    /\ \E torn \in BOOLEAN :
           logs' = [logs EXCEPT ![Len(logs)] =
               [ino |-> @.ino, gen |-> @.gen, torn |-> torn,
                lines |-> Append(@.lines, [id |-> written', kind |-> c.kind, dst |-> c.dst])]]
    /\ UNCHANGED <<tail, checkpoint, feed, sweep, ledger, folded, lost, skipped,
                   resets, mishaps>>

(* The rest of a line whose beginning was flushed before.                    *)
CompleteLine ==
    /\ Current.torn
    /\ logs' = [logs EXCEPT ![Len(logs)] =
           [ino |-> @.ino, gen |-> @.gen, torn |-> FALSE, lines |-> @.lines]]
    /\ UNCHANGED <<written, tail, checkpoint, feed, sweep, ledger, folded, lost,
                   skipped, resets, mishaps>>

(* Rotation by renaming (the inode of a log long deleted may come back), and *)
(* by truncation.                                                            *)
ResetLog(new) ==
    /\ resets < MaxResets /\ ~Current.torn
    /\ resets' = resets + 1
    /\ logs' = new
    /\ UNCHANGED <<written, tail, checkpoint, feed, sweep, ledger, folded, lost,
                   skipped, mishaps>>
Rotate == \E ino \in {1, 2} \ {Current.ino} : ResetLog(Append(logs, NewFile(ino)))
Truncate == ResetLog([logs EXCEPT ![Len(logs)] = NewFile(@.ino)])

-----------------------------------------------------------------------------
(* The EVE thread.  A definition whose name ends in Bug is the next one with *)
(* a plausible mistake in it.                                                *)

(* Twice the size, and twice the offset: a torn line counts half.            *)
Size(f) == 2 * Len(f.lines) - IF f.torn THEN 1 ELSE 0

(* Where a pass on file f resumes: another inode is read from the top, and   *)
(* so is a file shorter than what was read of it.                            *)
ResumeAtBug(f, mark) == IF Size(f) < 2 * mark.offset THEN 0 ELSE mark.offset
ResumeAt(f, mark) ==
    IF f.ino # mark.ino \/ Size(f) < 2 * mark.offset THEN 0 ELSE mark.offset

(* process_available: stat, and where to resume is settled by what it says.   *)
BeginPass ==
    LET f == Current
        at == ResumeAt(f, tail.mark)
        mark == [ino |-> f.ino, offset |-> at, gen |-> f.gen]
    IN
    /\ tail.pass = NoPass
    /\ mark # tail.mark \/ Size(f) > 2 * at
    /\ tail' = [mark |-> mark,
                pass |-> IF Size(f) > 2 * at
                         THEN [fd |-> 0, pos |-> at, left |-> MaxLinesPerPass]
                         ELSE NoPass]
    /\ skipped' = (skipped \/ (/\ at > 0 /\ tail.mark.gen # f.gen
                             /\ tail.mark.ino = f.ino))
    /\ UNCHANGED <<writer, checkpoint, feed, sweep, ledger, folded, lost, mishaps>>

(* The file at the path is opened and sought.  It may not be the one stat saw: *)
(* lines read of a file of another inode count for no file at all.           *)
OpenLog ==
    LET f == Current IN
    /\ tail.pass # NoPass /\ tail.pass.fd = 0
    /\ tail' = [mark |-> [tail.mark EXCEPT !.gen = IF f.ino = tail.mark.ino THEN f.gen ELSE -1],
                pass |-> [tail.pass EXCEPT !.fd = Len(logs)]]
    /\ skipped' = (skipped \/ (/\ tail.pass.pos > 0 /\ tail.mark.gen # f.gen
                             /\ tail.mark.ino = f.ino))
    /\ UNCHANGED <<writer, checkpoint, feed, sweep, ledger, folded, lost, mishaps>>

InPass == tail.pass.fd # 0
NextLine == logs[tail.pass.fd].lines[tail.pass.pos + 1]
TornHere == /\ logs[tail.pass.fd].torn
            /\ tail.pass.pos + 1 = Len(logs[tail.pass.fd].lines)
AtEnd == \/ tail.pass.left = 0
         \/ tail.pass.pos >= Len(logs[tail.pass.fd].lines)
         \/ TornHere

RetainBug(d) == retained' = Append(retained, d) /\ UNCHANGED counted
(* _retain: the oldest detection makes room for a new one, and is counted.   *)
Retain(d) ==
    IF Len(retained) < MaxRetained
    THEN retained' = Append(retained, d) /\ UNCHANGED counted
    ELSE /\ retained' = Append(Tail(retained), d)
         /\ counted' = counted \cup {Head(retained).id}

(* A line in the hands of the feed.                                          *)
Detecting == {"event", "answer"}
Raising == {"poison", "answer"}
Fold(line) ==
    /\ folded' = folded \cup {line.id}
    /\ IF line.kind \in Detecting
       THEN Retain([id |-> line.id, dst |-> line.dst])
       ELSE UNCHANGED <<retained, counted>>

(* One complete line: a detection, or a line counted as malformed.           *)
FoldLine ==
    /\ InPass /\ ~AtEnd /\ NextLine.kind \notin Raising
    /\ Fold(NextLine)
    /\ tail' = [tail EXCEPT !.pass =
           [fd |-> @.fd, pos |-> @.pos + 1, left |-> @.left - 1]]
    /\ UNCHANGED <<writer, checkpoint, pending, sweep, ledger, lost, skipped, mishaps>>

(* A field that is not a number raises out of the pass: what was folded stays *)
(* folded and the offset stays where the pass began.  The byte count of a flow *)
(* is read before the flow is folded, the ttl of an answer after the query is. *)
PassRaises ==
    /\ InPass /\ ~AtEnd /\ NextLine.kind \in Raising
    /\ tail' = [tail EXCEPT !.pass = NoPass]
    /\ IF NextLine.kind = "answer" THEN Fold(NextLine)
       ELSE UNCHANGED <<retained, counted, folded>>
    /\ UNCHANGED <<writer, checkpoint, pending, sweep, ledger, lost, skipped, mishaps>>

(* The offset advances past the complete lines and is saved; a failed save    *)
(* keeps the old checkpoint on disk.                                          *)
EndOffsetBug == tail.pass.pos + IF TornHere THEN 1 ELSE 0
EndOffset == tail.pass.pos
EndPass ==
    LET mark == [tail.mark EXCEPT !.offset = EndOffset] IN
    /\ InPass /\ AtEnd
    /\ tail' = [mark |-> mark, pass |-> NoPass]
    /\ \/ checkpoint' = mark /\ UNCHANGED mishaps
       \/ Mishap /\ UNCHANGED checkpoint
    /\ UNCHANGED <<writer, feed, sweep, ledger, folded, lost, skipped>>

-----------------------------------------------------------------------------
(* The reconcile thread.                                                     *)

(* Another batch's indicator is ingested.                                    *)
Ingest(i) ==
    /\ i \notin known
    /\ known' = known \cup {i}
    /\ UNCHANGED <<writer, tail, checkpoint, feed, sweep, evidence, folded, lost,
                   skipped, mishaps>>

(* The map from values to indicators: of two rows with one value, the one     *)
(* read last.                                                                 *)
Maps ==
    {f \in [{ValueOf[i] : i \in known} -> known] :
        \A v \in DOMAIN f : ValueOf[f[v]] = v}

(* _pending_gc, then the detections are copied.                              *)
Kept(q, at) ==          \* the entries of q at these places, in their order
    LET kept[k \in 0..Len(q)] ==
            IF k = 0 THEN <<>>
            ELSE IF k \in at THEN Append(kept[k - 1], q[k]) ELSE kept[k - 1]
    IN  kept[Len(q)]
Dormant(q) == Kept(q, {k \in DOMAIN q : q[k].age <= Ttl})
SweepDue ==
    /\ known # {} \/ \E v \in Values : pending[v] # <<>>
    /\ retained # <<>> \/ \E v \in Values : pending[v] # <<>>
StartSweep ==
    /\ sweep.pc = "idle" /\ SweepDue
    /\ pending' = [v \in Values |-> Dormant(pending[v])]
    /\ counted' = counted \cup UNION {Ids(pending[v]) \ Ids(pending'[v]) : v \in Values}
    /\ \E map \in Maps :
           sweep' = [pc |-> "drain", map |-> map, dets |-> retained, records |-> <<>>]
    /\ UNCHANGED <<writer, tail, checkpoint, retained, ledger, folded, lost, skipped,
                   mishaps>>

(* The list is cleared, and with it what the EVE thread appended since the   *)
(* copy; parked detections whose value is in the map are taken up again.     *)
(* A copied one that is not is parked, the oldest of its target making room. *)
About(dets, V) == Kept(dets, {k \in DOMAIN dets : dets[k].dst \in V})
ParkBug(queue, dets) ==
    LET all == queue \o [k \in DOMAIN dets |-> [id |-> dets[k].id, age |-> 0]]
    IN  [queue |-> SubSeq(all, 1, IF Len(all) < PerTarget THEN Len(all) ELSE PerTarget),
         dropped |-> {}]
Park(queue, dets) ==
    LET all == queue \o [k \in DOMAIN dets |-> [id |-> dets[k].id, age |-> 0]]
        over == IF Len(all) > PerTarget THEN Len(all) - PerTarget ELSE 0
    IN  [queue |-> SubSeq(all, over + 1, Len(all)),
         dropped |-> Ids(SubSeq(all, 1, over))]

WakesBug(map) == {}
Wakes(map) == DOMAIN map
Drain ==
    LET map == sweep.map
        fresh == About(sweep.dets, DOMAIN map)
        woken == FlattenSeq(SetToSeq(
            {[k \in DOMAIN pending[v] |-> [id |-> pending[v][k].id, dst |-> v]] :
                v \in Wakes(map)}))
        parked == [v \in Values |->
            Park(IF v \in Wakes(map) THEN <<>> ELSE pending[v],
                 About(sweep.dets, {v} \ DOMAIN map))]
    IN
    /\ sweep.pc = "drain"
    /\ retained' = <<>>
    /\ lost' = lost \cup (Ids(retained) \ Ids(sweep.dets))
    /\ pending' = [v \in Values |-> parked[v].queue]
    /\ counted' = counted \cup UNION {parked[v].dropped : v \in Values}
    /\ sweep' = IF fresh \o woken = <<>> THEN NoSweep
                ELSE [pc |-> "persist", map |-> map, dets |-> <<>>, records |-> fresh \o woken]
    /\ UNCHANGED <<writer, tail, checkpoint, ledger, folded, skipped, mishaps>>

(* One record: the evidence row lands unless it is there already, and only a *)
(* row that landed has its indicator decided again.  An exception of the     *)
(* ledger skips the record.                                                  *)
Rest(s) == IF Len(s.records) = 1 THEN NoSweep
           ELSE [pc |-> "persist", map |-> s.map, dets |-> s.dets, records |-> Tail(s.records)]
Persist ==
    LET rec == Head(sweep.records)
        row == <<sweep.map[rec.dst], rec.id>>
    IN
    /\ sweep.pc = "persist"
    /\ \/ /\ evidence' = evidence \cup {row}
          /\ sweep' = IF row \in evidence THEN Rest(sweep)
                      ELSE [sweep EXCEPT !.pc = "decide"]
          /\ UNCHANGED <<lost, mishaps>>
       \/ /\ Mishap
          /\ lost' = lost \cup {rec.id}
          /\ sweep' = Rest(sweep)
          /\ UNCHANGED evidence
    /\ UNCHANGED <<writer, tail, checkpoint, feed, known, folded, skipped>>

(* decide_indicator is not guarded: when it raises, the sweep is over and the *)
(* records behind it are gone.                                                *)
Decide ==
    /\ sweep.pc = "decide"
    /\ \/ sweep' = Rest(sweep) /\ UNCHANGED <<lost, mishaps>>
       \/ /\ Mishap
          /\ lost' = lost \cup Ids(Tail(sweep.records))
          /\ sweep' = NoSweep
    /\ UNCHANGED <<writer, tail, checkpoint, feed, ledger, folded, skipped>>

(* Time passes for what is parked.                                           *)
Age ==
    /\ \E v \in Values : \E k \in DOMAIN pending[v] : pending[v][k].age <= Ttl
    /\ pending' = [v \in Values |-> [k \in DOMAIN pending[v] |->
           [pending[v][k] EXCEPT !.age = IF @ <= Ttl THEN @ + 1 ELSE @]]]
    /\ UNCHANGED <<writer, tail, checkpoint, retained, counted, sweep, ledger,
                   folded, lost, skipped, mishaps>>

(* The process dies: detectors, detections and what is parked are gone.  The *)
(* next one resumes from the durable checkpoint.                             *)
InMemory == Ids(retained) \cup Ids(sweep.dets) \cup Ids(sweep.records)
            \cup UNION {Ids(pending[v]) : v \in Values}
Crash ==
    /\ Mishap
    /\ lost' = lost \cup InMemory
    /\ retained' = <<>>
    /\ pending' = [v \in Values |-> <<>>]
    /\ sweep' = NoSweep
    /\ tail' = [mark |-> checkpoint, pass |-> NoPass]
    /\ UNCHANGED <<writer, checkpoint, counted, ledger, folded, skipped>>

-----------------------------------------------------------------------------
Init ==
    /\ logs = <<[ino |-> 1, gen |-> 0, lines |-> <<>>, torn |-> FALSE]>>
    /\ written = 0
    /\ tail = [mark |-> [ino |-> 0, offset |-> 0, gen |-> -1], pass |-> NoPass]
    /\ checkpoint = tail.mark
    /\ retained = <<>>
    /\ pending = [v \in Values |-> <<>>]
    /\ sweep = NoSweep
    /\ known = Ingested /\ evidence = {}
    /\ counted = {} /\ folded = {} /\ lost = {}
    /\ skipped = FALSE
    /\ resets = 0 /\ mishaps = 0

TailStep == BeginPass \/ OpenLog \/ FoldLine \/ PassRaises \/ EndPass
SweepStep == StartSweep \/ Drain \/ Persist \/ Decide

Next ==
    \/ \E c \in Contents : WriteLine(c)
    \/ CompleteLine \/ Rotate \/ Truncate
    \/ BeginPass \/ OpenLog \/ FoldLine \/ PassRaises \/ EndPass
    \/ \E i \in Indicators : Ingest(i)
    \/ StartSweep \/ Drain \/ Persist \/ Decide
    \/ Age \/ Crash

(* Both threads poll for ever.  SweepFairness is WF_sweep(SweepStep), with    *)
(* what enables a step spelled out, which TLC evaluates twice as fast.        *)
SweepFairness == []<>(sweep.pc = "idle" /\ ~SweepDue) \/ []<><<SweepStep>>_sweep
Spec == Init /\ [][Next]_vars /\ WF_tail(TailStep) /\ SweepFairness
-----------------------------------------------------------------------------
TypeOK ==
    /\ Len(retained) <= MaxRetained
    /\ \A v \in Values : Len(pending[v]) <= PerTarget
    /\ tail.pass.fd \in {0} \cup DOMAIN logs
    /\ tail.mark.offset \in 0..written /\ checkpoint.offset \in 0..written
    /\ sweep.pc \in {"idle", "drain", "persist", "decide"}
    /\ known \subseteq Indicators
    /\ evidence \subseteq Indicators \X (1..written)
    /\ counted \cup folded \cup lost \subseteq 1..written
    /\ skipped \in BOOLEAN /\ resets \in 0..MaxResets /\ mishaps \in 0..MaxMishaps

(* The tail skips nothing: whatever was torn, rotated, truncated, raised or  *)
(* crashed, every line the durable checkpoint is past has been folded,       *)
(* unless an inode came back or a truncated log had regrown unseen.          *)
CheckpointIsFolded ==
    ~skipped /\ checkpoint.ino = Current.ino /\ checkpoint.gen = Current.gen =>
        \A k \in 1..checkpoint.offset : Current.lines[k].id \in folded

(* Every detection is somewhere: retained, parked, in the hands of the sweep, *)
(* attached as evidence, or counted as dropped or expired.  What is lost       *)
(* beyond that is lost to an append between copy and clear, to an exception    *)
(* in the sweep, or to a crash.                                                *)
Events(S) == {id \in S : \E f \in DOMAIN logs : \E k \in DOMAIN logs[f].lines :
                 logs[f].lines[k].id = id /\ logs[f].lines[k].kind \in Detecting}
DetectionsConserved ==
    Events(folded) \subseteq
        InMemory \cup counted \cup lost \cup {row[2] : row \in evidence}

(* A complete line of the current log is folded in the end, unless the log is *)
(* reset, a line that raises stands before it, or the tail has been fooled.   *)
InCurrent(id) == \E k \in DOMAIN Current.lines : Current.lines[k].id = id
Blocked == \E k \in DOMAIN Current.lines : Current.lines[k].kind \in Raising
TailCatchesUp ==
    \A id \in 1..MaxLines :
        InCurrent(id) ~> id \in folded \/ ~InCurrent(id) \/ Blocked
                         \/ Current.torn \/ skipped

(* A parked detection is not forgotten: once its value is an indicator's, it  *)
(* becomes evidence, or is counted or lost as above.                          *)
Parked(id) == \E v \in Values : id \in Ids(pending[v]) /\ \E i \in known : ValueOf[i] = v
ParkedIsAttached ==
    \A id \in 1..MaxLines :
        Parked(id) ~> id \in counted \cup lost \cup {row[2] : row \in evidence}

(* feed.py: a detection whose target is not known yet stays dormant; it is     *)
(* never silently discarded.                                                   *)
NeverSilentlyDiscarded == [][lost' = lost \/ mishaps' # mishaps]_vars
=============================================================================
