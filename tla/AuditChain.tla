----------------------------- MODULE AuditChain -----------------------------
(***************************************************************************)
(* The tamper-evident audit log of the server (server/src/audit-chain.js):  *)
(* every record carries its number and the hash of its predecessor; a       *)
(* durable anchor remembers the newest one.  Appends of one process         *)
(* serialize on a mutex, and the process keeps the head in memory once it   *)
(* has found it: in the anchor or in the records.  A verification reads the *)
(* anchor, then the records, while appends go on.                           *)
(*                                                                         *)
(* A hash is the record it is of (each has a random nonce).  Nobody tampers *)
(* here: what is asked is whether crashes and failures of the store alone   *)
(* can make an honest log look tampered with.                               *)
(***************************************************************************)
EXTENDS Naturals, Sequences

CONSTANTS
  Writers,     \* calls of appendAudit
  Genesis,     \* genesisAnchor
  MaxFailures  \* bound: crashes and failures of the store

ASSUME AuditAssumption == MaxFailures \in Nat /\ Genesis \notin Writers

VARIABLES
  medium,   \* "json" or "postgres"
  trail,    \* the chained records that can be read, in the order of appends
  brink,    \* the end of the file: "whole", "torn" or "bare"
  anchor,   \* the durable head
  head,     \* the head as the process holds it
  known,    \* whether the process holds one
  mutex,    \* the writer inside withStreamMutex, or Genesis
  stage,    \* the await a writer is at
  seen,     \* the anchor as the verification read it
  verdict,  \* what the last verification answered
  lost,     \* history: records whose append lied about its effect
  failures  \* bound: failures so far

auditVars == <<medium, trail, brink, anchor, head, known, mutex, stage, seen, verdict,
               lost, failures>>

HeadAt(n, h) == [seq |-> n, hash |-> h]
NoHead == HeadAt(0, Genesis)

AuditInit ==
  /\ medium \in {"json", "postgres"}
  /\ trail = <<>> /\ brink = "whole" /\ anchor = NoHead
  /\ head = NoHead /\ known = FALSE /\ mutex = Genesis
  /\ stage = [w \in Writers |-> "idle"]
  /\ seen = NoHead /\ verdict = "" /\ lost = {} /\ failures = 0

Stage(w, l) == stage' = [stage EXCEPT ![w] = l]
Failure == failures < MaxFailures /\ failures' = failures + 1
Verifier == <<seen, verdict>>

-----------------------------------------------------------------------------
\* lastChainedFromRecords: the newest record.
Newest == IF trail = <<>> THEN NoHead
          ELSE LET i == CHOOSE i \in DOMAIN trail :
                          \A j \in DOMAIN trail : trail[j].seq <= trail[i].seq
               IN HeadAt(trail[i].seq, trail[i].by)

\* Fault: the anchor is believed whenever there is one.
HeadOfAnchor == IF known THEN head ELSE IF anchor # NoHead THEN anchor ELSE Newest

\* currentHead: the records are truth, the anchor only when it is ahead.
CurrentHead == IF known THEN head
               ELSE IF Newest.seq >= anchor.seq THEN Newest ELSE anchor

Enter(w) == /\ stage[w] = "idle" /\ mutex = Genesis
            /\ mutex' = w
            /\ Stage(w, "head")
            /\ UNCHANGED <<medium, trail, brink, anchor, head, known, Verifier, lost,
                           failures>>

\* A failure here is not the record's: it is appended without a chain.
FindHead(w) ==
  /\ stage[w] = "head"
  /\ \/ /\ head' = CurrentHead /\ known' = TRUE
        /\ Stage(w, "append") /\ UNCHANGED failures
     \/ /\ Failure /\ ~known
        /\ Stage(w, "plain") /\ UNCHANGED <<head, known>>
  /\ UNCHANGED <<medium, trail, brink, anchor, mutex, Verifier, lost>>

Link(w) == [by |-> w, seq |-> head.seq + 1, prev |-> head.hash]
AtEnd(w) == HeadAt(head.seq + 1, w)

\* appendFileSync behind a line that was not ended makes one unreadable line
\* of both.
Line(w, record) ==
  CASE brink = "whole" -> trail' = trail \o record /\ lost' = lost
    [] brink = "torn"  -> trail' = trail /\ lost' = lost \cup {w}
    [] brink = "bare"  -> /\ trail' = SubSeq(trail, 1, Len(trail) - 1)
                          /\ lost' = lost \cup {w, trail[Len(trail)].by}

AppendRecord(w) ==
  /\ stage[w] = "append"
  /\ Line(w, <<Link(w)>>) /\ brink' = "whole"
  /\ head' = AtEnd(w)
  /\ Stage(w, "anchor")
  /\ UNCHANGED <<medium, anchor, known, mutex, Verifier, failures>>

AppendPlain(w) ==
  /\ stage[w] = "plain"
  /\ Line(w, <<>>) /\ brink' = "whole"
  /\ Stage(w, "done") /\ mutex' = Genesis
  /\ UNCHANGED <<medium, anchor, head, known, Verifier, failures>>

\* The store refuses the record, or takes it and the answer is lost.
AppendThrows(w) ==
  /\ stage[w] = "append" /\ Failure
  /\ \/ UNCHANGED <<trail, lost>>
     \/ /\ medium = "postgres"
        /\ trail' = Append(trail, Link(w)) /\ lost' = lost \cup {w}
  /\ Stage(w, "failed") /\ mutex' = Genesis
  /\ UNCHANGED <<medium, brink, anchor, head, known, Verifier>>

\* writeDurableHead; its failure is swallowed.
WriteAnchor(w) ==
  /\ stage[w] = "anchor"
  /\ \/ anchor' = head /\ UNCHANGED failures
     \/ Failure /\ UNCHANGED anchor
  /\ Stage(w, "done") /\ mutex' = Genesis
  /\ UNCHANGED <<medium, trail, brink, head, known, Verifier, lost>>

\* The process dies, perhaps in the middle of a line.
Collapse ==
  /\ Failure
  /\ stage' = [w \in Writers |-> IF stage[w] \in {"idle", "done", "failed"}
                                 THEN stage[w] ELSE "dead"]
  /\ head' = NoHead /\ known' = FALSE /\ mutex' = Genesis
  /\ \/ UNCHANGED <<trail, brink, lost>>
     \/ /\ medium = "json" /\ mutex # Genesis /\ stage[mutex] = "append"
        /\ \/ Line(mutex, <<>>) /\ brink' = "torn"
           \/ brink = "whole" /\ Line(mutex, <<Link(mutex)>>) /\ brink' = "bare"
  /\ UNCHANGED <<medium, anchor, Verifier>>

-----------------------------------------------------------------------------
\* verifyChain.
ReadHead == /\ verdict # "reading"
            /\ seen' = anchor /\ verdict' = "reading"
            /\ UNCHANGED <<medium, trail, brink, anchor, head, known, mutex, stage, lost,
                           failures>>

Intact(records) == \A i \in DOMAIN records :
  /\ records[i].seq = i
  /\ records[i].prev = IF i = 1 THEN Genesis ELSE records[i - 1].by

\* A chain that ends before the anchor has lost its tail.
Judge(records) == IF Intact(records) /\ seen.seq <= Len(records) THEN "VALID" ELSE "BROKEN"

ReadRows == /\ verdict = "reading"
            /\ verdict' = Judge(trail)
            /\ seen' = NoHead
            /\ UNCHANGED <<medium, trail, brink, anchor, head, known, mutex, stage, lost,
                           failures>>

AuditNext ==
  \/ \E w \in Writers : \/ Enter(w) \/ FindHead(w) \/ AppendRecord(w) \/ AppendPlain(w)
                        \/ AppendThrows(w) \/ WriteAnchor(w)
  \/ Collapse \/ ReadHead \/ ReadRows

AuditSpec == AuditInit /\ [][AuditNext]_auditVars

-----------------------------------------------------------------------------
\* Crashes between the record and its anchor, anchors that could not be
\* written and verifications in the middle of an append never make an honest
\* log look broken.  A record that was stored although its append failed, or
\* that ran into a damaged line, does: the verification tells a deletion or a
\* second writer where there was none.
BrokenOnlyAfterLoss == verdict = "BROKEN" => lost # {}
=============================================================================
