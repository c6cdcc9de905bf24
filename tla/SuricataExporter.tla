-------------------------- MODULE SuricataExporter --------------------------
(***************************************************************************)
(* The Suricata ruleset exporter.  Threads of one controller process (its   *)
(* dispatch loop, its reconcile loop, HTTP requests) share one adapter and   *)
(* rewrite one ruleset file.  Unlike the RPZ adapter it takes no lock: a     *)
(* call reads the file, edits the lines, writes a temporary file whose name  *)
(* is fixed, and renames it over the ruleset.  open(..., "w") truncates what *)
(* is there, and a descriptor follows its file through a rename, so files    *)
(* are modelled as inodes.                                                   *)
(*                                                                          *)
(* A rule line is the pair of its SID and the decision in its metadata; all  *)
(* lines have the same length.  A row is an action of the ledger, keyed by   *)
(* decision and SID.  SIDs count from _SURICATA_RULE_START_SID.              *)
(***************************************************************************)
EXTENDS Integers, FiniteSets, SequencesExt

CONSTANTS
    Threads,
    Decisions,
    Shape,          \* [Decisions -> Shapes]: what compile() looks at
    Start,          \* [Decisions -> Nat]: the hash of a decision's id
    MaxSid,         \* bound: SIDs in use
    Postures,       \* suricata_mode of a (re)started process
    HomeNets,       \* suricata_authorized_prefixes: sets of targets (decisions)
    MaxCalls,       \* bound: compile, apply and revoke calls
    MaxRestarts     \* bound: restarts of the process

Modes == {"OFF", "OBSERVE", "SHADOW"}
Sids == 0..MaxSid
Shapes == [action : {"firewall_deny", "rate_limit", "dns_deny"},
           type : {"ip", "cidr", "fqdn"}, pair : BOOLEAN, client : BOOLEAN,
           ceiling : BOOLEAN, mode : {"OFF", "OBSERVE", "SHADOW", "ENFORCE"}]

ASSUME ExporterAssumption ==
    /\ IsFiniteSet(Threads)
    /\ Shape \in [Decisions -> Shapes]
    /\ MaxSid \in Nat /\ Start \in [Decisions -> Sids]
    /\ Postures \subseteq Modes
    /\ \A home \in HomeNets : home \subseteq Decisions
    /\ MaxCalls \in Nat /\ MaxRestarts \in Nat

Lines == [sid : Sids, decision : Decisions]
Rows == Decisions \X Sids
Stages == {"none", "pending", "applying", "failed", "applied", "drifted",
           "removing", "removed"}

(* The ruleset's inode, the temporary file's and one per open descriptor.    *)
Inodes == 0..(Cardinality(Threads) + 1)
NoInode == -1

VARIABLES
    disk,        \* contents of the inodes: [Inodes -> Seq(Lines)]
    rules,       \* the inode named by the ruleset path, or NoInode
    tmp,         \* the inode named by the ".rules.tmp" path, or NoInode
    claimed,     \* _claimed_sids of the running process: decision -> SID or -1
    posture, home,
    stage,       \* the ledger's rows: [Rows -> Stages]
    unwanted,    \* rows whose desired_state is ABSENT
    call,        \* the adapter call each thread is in
    overlapped,  \* two calls have been writing at the same time
    calls, restarts

vars == <<disk, rules, tmp, claimed, posture, home, stage, unwanted, call,
          overlapped, calls, restarts>>

files == <<disk, rules, tmp>>
process == <<claimed, posture, home>>
bounds == <<calls, restarts>>

CallStates ==
    [op : {"none", "apply", "revoke"},
     pc : {"idle", "read", "open", "fill", "replace", "check"},
     row : Rows \cup {<<>>}, copy : Seq(Lines), fd : Inodes \cup {NoInode}]
Idle == [op |-> "none", pc |-> "idle", row |-> <<>>, copy |-> <<>>,
         fd |-> NoInode]

Published == IF rules = NoInode THEN <<>> ELSE disk[rules]
LineOf(row) == [sid |-> row[2], decision |-> row[1]]
HasSid(lines, s) == \E i \in DOMAIN lines : lines[i].sid = s

(* The exact SID token: other lines stay.  A definition whose name ends in    *)
(* Bug is the next one with a plausible mistake in it.                        *)
WithoutBug(lines, s) == SelectSeq(lines, LAMBDA line : line.sid < s)
Without(lines, s) ==
    LET kept[i \in 0..Len(lines)] ==
            IF i = 0 THEN <<>>
            ELSE IF lines[i].sid = s THEN kept[i - 1]
            ELSE Append(kept[i - 1], lines[i])
    IN  kept[Len(lines)]

-----------------------------------------------------------------------------
(* What may be compiled and published.                                       *)

Rank == [m \in Modes \cup {"ENFORCE"} |->
            IF m = "OFF" THEN 0 ELSE IF m = "OBSERVE" THEN 1
            ELSE IF m = "SHADOW" THEN 2 ELSE 3]
Effective(stored, max) == IF Rank[stored] < Rank[max] THEN stored ELSE max

(* compile() answers a rule for this decision: neither [] nor AdapterError.  *)
CompilesIp(s) ==
    /\ s.type = "ip"
    /\ s.pair => s.client
    /\ s.action = "rate_limit" => s.ceiling
CompilesHost(s) ==
    /\ s.type = "fqdn" /\ s.action = "rate_limit"
    /\ s.pair /\ s.ceiling
Compiles(d) ==
    /\ Shape[d].action \in {"firewall_deny", "rate_limit"}
    /\ \/ CompilesIp(Shape[d]) /\ d \in home
       \/ CompilesHost(Shape[d])

(* validate(): a pair-scoped address is refused whatever its client, and the *)
(* home net is checked again unless the call is a removal.                   *)
ValidBug(d, checkScope) ==
    Shape[d].type = "ip" /\ checkScope => d \in home
ValidScopedBug(d, checkScope) ==
    /\ ~(Shape[d].type = "ip" /\ Shape[d].pair)
    /\ Shape[d].type = "ip" => d \in home
Valid(d, checkScope) ==
    /\ ~(Shape[d].type = "ip" /\ Shape[d].pair)
    /\ Shape[d].type = "ip" /\ checkScope => d \in home

(* _next_sid: the SID this process gave the decision before, while the file  *)
(* shows no other decision's rule there; else the first free one from its    *)
(* hash on.  Only the file is searched, never what the process has given to  *)
(* decisions that are not published yet.                                     *)
NextSid(d) ==
    LET foreign == \E i \in DOMAIN Published :
            Published[i].sid = claimed[d] /\ Published[i].decision # d
        free == {s \in Start[d]..MaxSid : ~HasSid(Published, s)}
    IN  IF claimed[d] # -1 /\ ~foreign THEN {claimed[d]}
        ELSE {s \in free : \A r \in free : s <= r}

-----------------------------------------------------------------------------
Init ==
    /\ disk = [i \in Inodes |-> <<>>]
    /\ rules = NoInode
    /\ tmp = NoInode
    /\ claimed = [d \in Decisions |-> -1]
    /\ posture \in Postures
    /\ home \in HomeNets
    /\ stage = [r \in Rows |-> "none"]
    /\ unwanted = {}
    /\ call = [t \in Threads |-> Idle]
    /\ overlapped = FALSE
    /\ calls = 0
    /\ restarts = 0

Calling == calls < MaxCalls /\ calls' = calls + 1 /\ UNCHANGED restarts

Enter(t, op, row, pc) ==
    call' = [call EXCEPT ![t] = [op |-> op, pc |-> pc, row |-> row, copy |-> <<>>,
                                 fd |-> NoInode]]
Leave(t) == call' = [call EXCEPT ![t] = Idle]
Goto(t, pc) == call' = [call EXCEPT ![t].pc = pc]
Settle(row, s) == stage' = [stage EXCEPT ![row] = s]

(* A batch, a replay or an approval compiles the decision and records the    *)
(* action; recording the same action again changes nothing.                  *)
Compile(d) ==
    /\ Calling
    /\ Compiles(d)
    /\ \E s \in NextSid(d) :
           /\ claimed' = [claimed EXCEPT ![d] = s]
           /\ stage' = IF stage[<<d, s>>] = "none"
                       THEN [stage EXCEPT ![<<d, s>>] = "pending"] ELSE stage
    /\ UNCHANGED <<files, posture, home, unwanted, call, overlapped>>

(* The dispatcher claims a pending action; apply() validates it and refuses  *)
(* a posture below SHADOW.                                                   *)
BeginApply(t, row) ==
    LET d == row[1]
        publishes == /\ Valid(d, TRUE)
                     /\ Rank[Effective(Shape[d].mode, posture)] >= Rank["SHADOW"]
    IN
    /\ call[t].pc = "idle"
    /\ stage[row] = "pending" /\ row \notin unwanted
    /\ IF publishes
       THEN Settle(row, "applying") /\ Enter(t, "apply", row, "read")
       ELSE Settle(row, "failed") /\ UNCHANGED call
    /\ UNCHANGED <<files, process, unwanted, overlapped, bounds>>

(* Expiry, an operator or a promotion no longer wants the action.            *)
Unwant(row) ==
    /\ Calling
    /\ stage[row] \in {"applied", "drifted"} /\ row \notin unwanted
    /\ unwanted' = unwanted \cup {row}
    /\ UNCHANGED <<files, process, stage, call, overlapped>>

(* revoke(), which scope and posture never refuse.                           *)
BeginRevoke(t, row) ==
    /\ call[t].pc = "idle"
    /\ row \in unwanted /\ stage[row] \in {"applied", "drifted"}
    /\ Valid(row[1], FALSE)
    /\ Settle(row, "removing")
    /\ Enter(t, "revoke", row, "read")
    /\ UNCHANGED <<files, process, unwanted, overlapped, bounds>>

Writing(t) == call[t].pc \in {"open", "fill", "replace"}

(* The whole file is read and the call's own line replaced or dropped.  A    *)
(* revoke that finds nothing to drop is done.  apply reads twice: a file that *)
(* is empty the first time is not read again, and otherwise only the second  *)
(* reading is used, so one reading, at either moment, stands for both.       *)
Edit(t) ==
    LET others == Without(Published, call[t].row[2]) IN
    IF call[t].op = "apply" THEN Append(others, LineOf(call[t].row)) ELSE others
Read(t) ==
    LET c == call[t] IN
    /\ c.pc = "read"
    /\ IF c.op = "revoke" /\ ~HasSid(Published, c.row[2])
       THEN /\ Settle(c.row, "removed")
            /\ Leave(t)
            /\ UNCHANGED overlapped
       ELSE /\ call' = [call EXCEPT ![t].copy = Edit(t), ![t].pc = "open"]
            /\ overlapped' = (overlapped \/ \E u \in Threads : Writing(u))
            /\ UNCHANGED stage
    /\ UNCHANGED <<files, process, unwanted, bounds>>

(* open(tmp, "w"): the file the path names is truncated, or a new one made.  *)
OpenTmp(t) ==
    LET used == {rules, tmp} \cup {call[u].fd : u \in Threads}
        inode == IF tmp # NoInode THEN tmp
                 ELSE CHOOSE i \in Inodes : i \notin used
    IN
    /\ call[t].pc = "open"
    /\ disk' = [disk EXCEPT ![inode] = <<>>]
    /\ tmp' = inode
    /\ call' = [call EXCEPT ![t].fd = inode, ![t].pc = "fill"]
    /\ UNCHANGED <<rules, process, stage, unwanted, overlapped, bounds>>

(* The text is written from the beginning of the open file and the file      *)
(* closed: what another writer put beyond its end stays.                     *)
FillTmp(t) ==
    LET c == call[t]
        tail == SubSeq(disk[c.fd], Len(c.copy) + 1, Len(disk[c.fd]))
    IN
    /\ c.pc = "fill"
    /\ disk' = [disk EXCEPT ![c.fd] = c.copy \o tail]
    /\ call' = [call EXCEPT ![t].fd = NoInode, ![t].pc = "replace"]
    /\ UNCHANGED <<rules, tmp, process, stage, unwanted, overlapped, bounds>>

(* os.replace(tmp, rules).  Without a temporary file it raises: the call is  *)
(* abandoned and its row left to the sweeps.                                 *)
Replace(t) ==
    /\ call[t].pc = "replace"
    /\ IF tmp = NoInode
       THEN Leave(t) /\ UNCHANGED <<rules, tmp>>
       ELSE rules' = tmp /\ tmp' = NoInode /\ Goto(t, "check")
    /\ UNCHANGED <<disk, process, stage, unwanted, overlapped, bounds>>

(* verify() after an apply, and the re-read at the end of revoke: the file   *)
(* holds the SID, or it does not.                                            *)
Check(t) ==
    LET c == call[t]
        present == HasSid(Published, c.row[2])
    IN
    /\ c.pc = "check"
    /\ Settle(c.row, IF present = (c.op = "apply")
                     THEN IF c.op = "apply" THEN "applied" ELSE "removed"
                     ELSE "drifted")
    /\ Leave(t)
    /\ UNCHANGED <<files, process, unwanted, overlapped, bounds>>

(* The sweeps take up rows whose call died: an unfinished apply is offered   *)
(* again, an unfinished removal is retried.                                  *)
Stuck(row) == \A t \in Threads : call[t].row # row
Sweep(row) ==
    /\ stage[row] \in {"applying", "removing"} /\ Stuck(row)
    /\ Settle(row, IF stage[row] = "applying" THEN "pending" ELSE "drifted")
    /\ UNCHANGED <<files, process, unwanted, call, overlapped, bounds>>

(* The process dies and is started again, possibly with another posture and  *)
(* home net.  _claimed_sids is lost; a temporary file it leaves behind is    *)
(* truncated by the next writer.                                             *)
Restart(m, net) ==
    /\ restarts < MaxRestarts /\ restarts' = restarts + 1
    /\ claimed' = [d \in Decisions |-> -1]
    /\ posture' = m
    /\ home' = net
    /\ call' = [t \in Threads |-> Idle]
    /\ UNCHANGED <<files, stage, unwanted, overlapped, calls>>

Next ==
    \/ \E d \in Decisions : Compile(d)
    \/ \E row \in Rows : Unwant(row) \/ Sweep(row)
    \/ \E t \in Threads :
           \/ \E row \in Rows : BeginApply(t, row) \/ BeginRevoke(t, row)
           \/ Read(t) \/ OpenTmp(t) \/ FillTmp(t) \/ Replace(t) \/ Check(t)
    \/ \E m \in Postures, net \in HomeNets : Restart(m, net)

(* The reconcile loop goes on taking up rows; a call that is running ends.   *)
Removes(row) == Sweep(row) \/ \E t \in Threads : BeginRevoke(t, row)
Runs(t) == Read(t) \/ OpenTmp(t) \/ FillTmp(t) \/ Replace(t) \/ Check(t)
Fairness ==
    /\ WF_vars(\E row \in Rows : Removes(row))
    /\ \A t \in Threads : WF_vars(Runs(t))

Spec == Init /\ [][Next]_vars /\ Fairness
-----------------------------------------------------------------------------
TypeOK ==
    /\ disk \in [Inodes -> Seq(Lines)]
    /\ rules \in Inodes \cup {NoInode} /\ tmp \in Inodes \cup {NoInode}
    /\ claimed \in [Decisions -> Sids \cup {-1}]
    /\ posture \in Modes /\ home \in SUBSET Decisions
    /\ stage \in [Rows -> Stages] /\ unwanted \in SUBSET Rows
    /\ call \in [Threads -> CallStates]
    /\ overlapped \in BOOLEAN /\ calls \in Nat /\ restarts \in Nat

SharedSid == \E r, s \in Rows : /\ r[1] # s[1] /\ r[2] = s[2]
                                /\ {stage[r], stage[s]} \cap {"none"} = {}

(* A verified row's rule is in the file and a removed row's is not, through   *)
(* crashes at any point, restarts and retried calls: overlapping writers and  *)
(* a shared SID are the only ways the export and the ledger come apart.       *)
FileMatchesLedger ==
    ~overlapped /\ ~SharedSid =>
        \A row \in Rows :
            /\ stage[row] = "applied" => Contains(Published, LineOf(row))
            /\ stage[row] = "removed" => ~Contains(Published, LineOf(row))

(* The exporter never broadens: no rule of a decision that was scoped to a    *)
(* client pair is published as a rule on the bare address, although compile   *)
(* lets one with a client through.                                            *)
NeverBroadens ==
    \A i \in DOMAIN Published :
        LET s == Shape[Published[i].decision] IN ~(s.type = "ip" /\ s.pair)

(* A removal is not stranded by a crash, nor by a restart under a narrower     *)
(* home net or a posture of OFF: unless writers overlap (an apply and a revoke *)
(* that keep coinciding undo each other for ever), it is settled.              *)
RemovalsSettle ==
    \A row \in Rows : row \in unwanted ~> stage[row] = "removed" \/ overlapped

(* _next_sid: two compilations of one decision give the same SID, and those of *)
(* different decisions never collide.  (TLC refutes this: README, Findings.)   *)
SidsNameDecisions ==
    \A r, s \in Rows :
        stage[r] # "none" /\ stage[s] # "none" => (r[1] = s[1] <=> r[2] = s[2])
=============================================================================
