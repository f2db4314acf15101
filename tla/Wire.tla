-------------------------------- MODULE Wire --------------------------------
(***************************************************************************)
(* One client connection (pkg/pgwire/conn.go, cancel.go, copy.go) and the  *)
(* session behind it (pkg/sql/session.go, stream.go), beside the server's  *)
(* Drain (server.go), cancel requests and other clients' writes.           *)
(*                                                                         *)
(* The connection goroutine is a loop of small steps, so that a drain, a   *)
(* cancel or a timeout can fall between any two of them.  The client is    *)
(* any order of messages of the environment.  A row is the pair of the     *)
(* table version it was read from and its position; a version is one       *)
(* committed state of the table, so a result mixing two versions was not   *)
(* read by one transaction.  Authentication precedes the states of this    *)
(* module.                                                                 *)
(***************************************************************************)
EXTENDS Naturals, Sequences, FiniteSets

CONSTANT Environments

VARIABLES
  env,      \* the environment this behaviour runs in
  db,       \* committed state: table version, the index dropped or wiped
  ses,      \* sql.Session
  conn,     \* pgwire.conn: the fields Drain and cancels see, and the loop's
  task,     \* what the goroutine is doing
  portal,   \* the portal, <<>> or a singleton
  client,   \* what the client holds: rows of the result, its completeness
  drainer,  \* Server.Drain: "no", "soft", "hard"
  left      \* budgets: messages, faults, cancels, writes of others

vars == <<env, db, ses, conn, task, portal, client, drainer, left>>

Min2(a, b) == IF a < b THEN a ELSE b

-----------------------------------------------------------------------------
(* Initial states: a connection accepted and authenticated.               *)

NoStream == [on |-> "none", block |-> 0, snap |-> 0, pos |-> 0, skipped |-> 0,
             emitted |-> 0, flushed |-> FALSE, attempt |-> 0, done |-> TRUE]

Session == [state |-> "Idle", block |-> 0, snap |-> 0, drop |-> FALSE,
            wipes |-> 0, saved |-> <<>>]

newConn == [listed |-> FALSE, idle |-> FALSE, inTxn |-> FALSE,
            draining |-> FALSE, cut |-> FALSE, past |-> FALSE, open |-> TRUE,
            skip |-> FALSE, boundary |-> TRUE, armed |-> FALSE,
            stmt |-> 0, cancelled |-> FALSE, ioErr |-> FALSE,
            prepared |-> <<>>]

Init ==
  /\ env \in Environments
  /\ db = [version |-> 1, dropped |-> FALSE, wiped |-> FALSE]
  /\ ses = Session
  /\ conn = newConn
  /\ task = [pc |-> "new", msg |-> [m |-> "none"], todo |-> <<>>,
             mode |-> "query", res |-> "ok", st |-> NoStream,
             buf |-> <<>>, sent |-> 0, max |-> 0]
  /\ portal = <<>>
  /\ client = [rows |-> [by \in {"query", "portal"} |-> <<>>],
               shown |-> [by \in {"query", "portal"} |-> "partial"],
               applied |-> FALSE, bye |-> "none"]
  /\ drainer = "no"
  /\ left = [messages |-> env.messages, faults |-> env.faults,
             cancels |-> env.cancels, held |-> 0, writes |-> env.writes]

At(pc) == task.pc = pc
Goto(pc) == task' = [task EXCEPT !.pc = pc]
Fault == left.faults > 0 /\ left' = [left EXCEPT !.faults = @ - 1]

-----------------------------------------------------------------------------
(* sql.Session.                                                           *)

\* rollback: the block, its DDL and its pending wipes are forgotten.
rollback(s) == [Session EXCEPT !.block = s.block]

\* runPendingWipes, once the dropping transaction has committed.
runPendingWipes(d, s) == [d EXCEPT !.wiped = @ \/ s.wipes > 0]

\* Txn.Commit and what COMMIT does after it.
CommitBlock ==
  \/ /\ ses' = rollback(ses)
     /\ db' = runPendingWipes([db EXCEPT !.dropped = @ \/ ses.drop], ses)
     /\ task' = [task EXCEPT !.pc = "after", !.res = "ok"]
     /\ UNCHANGED left
  \/ /\ Fault
     /\ ses' = rollback(ses)
     /\ task' = [task EXCEPT !.pc = "after", !.res = "error"]
     /\ UNCHANGED db

Answer(res) == task' = [task EXCEPT !.pc = "after", !.res = res]

\* execRollbackToSavepoint: the KV state is the savepoint's again; what the
\* session remembers to do after COMMIT is not touched.
execRollbackToSavepoint ==
  IF ses.state = "Idle" \/ ses.saved = <<>>
  THEN Answer("error") /\ UNCHANGED ses
  ELSE /\ ses' = [ses EXCEPT !.state = "Open", !.drop = ses.saved[1]]
       /\ Answer("ok")

\* Any error fails the explicit transaction, and drops its pending wipes.
Fail(s) == IF s.state = "Open" THEN [s EXCEPT !.state = "Failed", !.wipes = 0]
           ELSE s

\* A write: in the block it waits for COMMIT, outside it commits here.
Write ==
  \/ /\ ~conn.cancelled
     /\ db' = IF ses.state = "Open" THEN db ELSE [db EXCEPT !.version = @ + 1]
     /\ Answer("ok")
     /\ UNCHANGED <<ses, left>>
  \/ /\ conn.cancelled \/ left.faults > 0
     /\ left' = IF conn.cancelled THEN left ELSE [left EXCEPT !.faults = @ - 1]
     /\ ses' = Fail(ses)
     /\ Answer("error")
     /\ UNCHANGED db

\* DROP INDEX: the entries are wiped after the commit.
DropIndex ==
  IF db.dropped \/ ses.drop
  THEN ses' = Fail(ses) /\ Answer("error") /\ UNCHANGED <<db, left>>
  ELSE /\ Answer("ok")
       /\ IF ses.state = "Open"
          THEN /\ ses' = [ses EXCEPT !.drop = TRUE, !.wipes = @ + 1]
               /\ UNCHANGED <<db, left>>
          ELSE /\ db' = [db EXCEPT !.dropped = TRUE, !.wiped = TRUE]
               /\ UNCHANGED <<ses, left>>

\* executeStreamingSelect outside a block, attachExplicit inside one.
OpenStream ==
  [NoStream EXCEPT !.done = FALSE,
     !.on = IF ses.state = "Open" THEN "explicit" ELSE "implicit",
     !.block = ses.block,
     !.snap = IF ses.state = "Open" THEN ses.snap ELSE db.version]

Select(stmt) ==
  \/ /\ ~conn.cancelled
     /\ IF stmt = "select"
        THEN task' = [task EXCEPT !.pc = "pull", !.res = "stream",
                                  !.st = OpenStream, !.buf = <<>>, !.sent = 0]
        ELSE task' = [task EXCEPT !.pc = "after", !.res = "rows",
                                  !.st = OpenStream]
     /\ UNCHANGED <<db, ses, left>>
  \/ /\ conn.cancelled \/ left.faults > 0
     /\ left' = IF conn.cancelled THEN left ELSE [left EXCEPT !.faults = @ - 1]
     /\ ses' = Fail(ses)
     /\ Answer("error")
     /\ UNCHANGED db

Begin ==
  /\ IF ses.state = "Open" THEN Answer("error") /\ UNCHANGED ses
     ELSE /\ ses' = [Session EXCEPT !.state = "Open", !.block = ses.block + 1,
                                    !.snap = db.version]
          /\ Answer("ok")

Savepoint ==
  IF ses.state # "Open" THEN Answer("error") /\ UNCHANGED ses
  ELSE ses' = [ses EXCEPT !.saved = <<ses.drop>>] /\ Answer("ok")

ReleaseSavepoint ==
  IF ses.state # "Open" \/ ses.saved = <<>> THEN Answer("error") /\ UNCHANGED ses
  ELSE ses' = [ses EXCEPT !.saved = <<>>] /\ Answer("ok")

\* Session.Execute on one statement, in the order of its cases.
Execute ==
  /\ At("exec")
  /\ LET stmt == Head(task.todo) IN
     IF ses.state = "Failed" /\ stmt \notin {"commit", "rollback", "rollbackto"}
     THEN Answer("error") /\ UNCHANGED <<db, ses, left>>
     ELSE CASE stmt = "begin" -> Begin /\ UNCHANGED <<db, left>>
            [] stmt = "commit" /\ ses.state = "Open" -> CommitBlock
            [] stmt = "commit" /\ ses.state = "Idle" ->
                 Answer("ok") /\ UNCHANGED <<db, ses, left>>
            [] stmt \in {"commit", "rollback"} /\ (stmt = "rollback" \/ ses.state = "Failed") ->
                 ses' = rollback(ses) /\ Answer("ok") /\ UNCHANGED <<db, left>>
            [] stmt = "savepoint" -> Savepoint /\ UNCHANGED <<db, left>>
            [] stmt = "release" -> ReleaseSavepoint /\ UNCHANGED <<db, left>>
            [] stmt = "rollbackto" ->
                 execRollbackToSavepoint /\ UNCHANGED <<db, left>>
            [] stmt = "write" -> Write
            [] stmt = "drop" -> DropIndex
            [] stmt = "create" ->      \* multi-transaction: not in a block
                 /\ Answer(IF ses.state = "Open" THEN "error" ELSE "ok")
                 /\ UNCHANGED <<db, ses, left>>
            [] OTHER -> Select(stmt)
  /\ UNCHANGED <<env, conn, portal, client, drainer>>

-----------------------------------------------------------------------------
(* RowStream and conn.sendStream.                                         *)

Limit == Min2(env.limit, env.rows - Min2(env.rows, env.offset))
Wanted(v) == [i \in 1..Limit |-> <<v, env.offset + i>>]

\* Close: an undrained implicit transaction is rolled back.
CloseStream(st) == [st EXCEPT !.done = TRUE]

\* restart: the statement re-runs on a fresh transaction, from its first row.
restart(st) == [st EXCEPT !.snap = db.version, !.pos = 0, !.skipped = 0,
                          !.emitted = 0, !.attempt = @ + 1]

MayRestart(st) ==
  st.on = "implicit" /\ ~st.flushed /\ ~conn.cancelled /\ st.attempt < env.attempts

\* The private buffer reaches the client; the stream may not restart then.
Delivered == [client EXCEPT !.rows[task.mode] = @ \o task.buf]

\* A new result: nothing of it has arrived.
Fresh(by) == [client EXCEPT !.rows[by] = <<>>, !.shown[by] = "partial"]

\* fail and finish both hand what is buffered to the client: the rows go out
\* ahead of the error or the CommandComplete.
EndPull(st, res) ==
  /\ task' = [task EXCEPT !.pc = "after", !.res = res, !.buf = <<>>,
                          !.st = [st EXCEPT !.done = TRUE]]
  /\ client' = [Delivered EXCEPT
                  !.shown[task.mode] = IF res = "ok" THEN "complete" ELSE @]

\* fail: an explicit stream's error fails the block (onError).
FailStream(st) ==
  /\ ses' = IF st.on = "explicit" /\ ses.state = "Open"
            THEN [ses EXCEPT !.state = "Failed"] ELSE ses
  /\ EndPull(st, "error")
  /\ UNCHANGED conn

\* A retryable error of the read, or of the closing commit.
PullFails ==
  /\ At("pull") /\ ~task.st.done
  /\ conn.cancelled \/ left.faults > 0
  /\ left' = IF conn.cancelled THEN left ELSE [left EXCEPT !.faults = @ - 1]
  /\ IF MayRestart(task.st)
     THEN /\ task' = [task EXCEPT !.st = restart(@), !.buf = <<>>, !.sent = 0]
          /\ UNCHANGED <<ses, client, conn>>
     ELSE FailStream(task.st)
  /\ UNCHANGED <<env, db, portal, drainer>>

\* One turn of sendStream's loop: a row pulled, skipped by OFFSET or encoded
\* into the private buffer, and the buffer flushed when it is full.
PullRow ==
  /\ At("pull")
  /\ task.max = 0 \/ task.sent < task.max
  /\ ~conn.cancelled
  /\ LET st == task.st IN
     IF st.done \/ st.emitted >= env.limit \/ st.pos >= env.rows
     THEN EndPull(st, "ok") /\ UNCHANGED conn
     ELSE LET moved == [st EXCEPT !.pos = @ + 1] IN
          IF st.skipped < env.offset
          THEN /\ task' = [task EXCEPT !.st = [moved EXCEPT !.skipped = @ + 1]]
               /\ UNCHANGED <<client, conn>>
          ELSE LET buf == Append(task.buf, <<st.snap, st.pos + 1>>)
                   out == [moved EXCEPT !.emitted = @ + 1]
               IN IF Len(buf) < env.flush
                  THEN /\ task' = [task EXCEPT !.st = out, !.buf = buf,
                                               !.sent = @ + 1]
                       /\ UNCHANGED <<client, conn>>
                  ELSE IF conn.open
                  THEN /\ task' = [task EXCEPT !.buf = <<>>, !.sent = @ + 1,
                                     !.st = [out EXCEPT !.flushed = TRUE]]
                       /\ client' = [client EXCEPT !.rows[task.mode] = @ \o buf]
                       /\ UNCHANGED conn
                  ELSE /\ task' = [task EXCEPT !.pc = "after", !.res = "error",
                                     !.buf = <<>>, !.st = CloseStream(out)]
                       /\ conn' = [conn EXCEPT !.ioErr = TRUE]
                       /\ UNCHANGED client
  /\ UNCHANGED <<env, db, ses, portal, drainer, left>>

\* MaxRows reached: the rows go out with PortalSuspended, and from here on
\* the stream may not restart.
Suspend ==
  /\ At("pull") /\ task.max > 0 /\ task.sent >= task.max
  /\ task' = [task EXCEPT !.pc = "after", !.res = "suspended", !.buf = <<>>,
                          !.st.flushed = TRUE]
  /\ client' = Delivered
  /\ UNCHANGED <<env, db, ses, conn, portal, drainer, left>>

-----------------------------------------------------------------------------
(* The connection's message loop (conn.run).                              *)

\* acceptLoop lists the connection for Drain and starts its goroutine.
Register ==
  /\ At("new")
  /\ conn' = [conn EXCEPT !.listed = TRUE]
  /\ Goto("top")
  /\ UNCHANGED <<env, db, ses, portal, client, drainer, left>>

\* setIdle's answer: a pending drain means goodbye.
Leaving == conn.cut \/ (conn.draining /\ ses.state # "Open")

\* The connection ends: portals reaped, the session closed.
End(bye) ==
  /\ task' = [task EXCEPT !.pc = "end", !.st = NoStream, !.buf = <<>>,
                          !.todo = <<>>]
  /\ ses' = rollback(ses)
  /\ portal' = <<>>
  /\ client' = [client EXCEPT
       !.bye = IF bye = "none" \/ ~conn.open THEN @
               ELSE IF client.applied THEN "torn" ELSE bye]

\* seeded fault: the goodbye does not end the loop
TopGoesOn ==
  /\ At("top")
  /\ LET bye == Leaving /\ conn.boundary IN
     /\ conn' = [conn EXCEPT !.idle = conn.boundary,
                             !.inTxn = ses.state = "Open", !.open = @ /\ ~bye]
     /\ IF bye THEN UNCHANGED task ELSE Goto("arm")
  /\ UNCHANGED <<env, db, ses, portal, client, drainer, left>>

\* The head of the loop: setIdle, and goodbye at a cycle boundary.
Top ==
  /\ At("top")
  /\ LET bye == Leaving /\ conn.boundary IN
     /\ conn' = [conn EXCEPT !.idle = conn.boundary,
                             !.inTxn = ses.state = "Open", !.open = @ /\ ~bye]
     /\ IF bye THEN End("goodbye")
        ELSE Goto("arm") /\ UNCHANGED <<ses, portal, client>>
  /\ UNCHANGED <<env, db, drainer, left>>

\* idle_in_transaction_session_timeout moves the read deadline ahead.
Arm ==
  /\ At("arm")
  /\ LET armed == conn.boundary /\ env.idleTimeout /\ ses.state # "Idle" IN
     conn' = [conn EXCEPT !.armed = armed, !.past = @ /\ ~armed]
  /\ Goto("wait")
  /\ UNCHANGED <<env, db, ses, portal, client, drainer, left>>

\* The armed deadline passes.
IdleTimeout ==
  /\ At("wait") /\ conn.armed /\ ~conn.past
  /\ conn' = [conn EXCEPT !.past = TRUE]
  /\ UNCHANGED <<env, db, ses, task, portal, client, drainer, left>>

\* A message arrives (one already buffered is read past a deadline too).
Receive ==
  /\ At("wait") /\ conn.open /\ left.messages > 0
  /\ \E m \in env.script : task' = [task EXCEPT !.msg = m, !.pc = "got"]
  /\ left' = [left EXCEPT !.messages = @ - 1]
  /\ UNCHANGED <<env, db, ses, conn, portal, client, drainer>>

\* Receive fails: the drain woke it, the idle timeout did, or the socket is
\* closed.
ReceiveFails ==
  /\ At("wait")
  /\ conn.past \/ ~conn.open
  /\ End(IF ~conn.open THEN "none"
         ELSE IF Leaving /\ conn.boundary THEN "goodbye"
         ELSE IF conn.armed THEN "idle" ELSE "none")
  /\ conn' = [conn EXCEPT !.open = FALSE, !.idle = FALSE, !.armed = FALSE]
  /\ UNCHANGED <<env, db, drainer, left>>

\* After Receive: the deadline is cleared when it was the idle timeout's,
\* and the connection is busy.
Got ==
  /\ At("got")
  /\ conn' = [conn EXCEPT !.idle = FALSE, !.inTxn = ses.state = "Open",
       !.past = @ /\ ~conn.armed, !.armed = FALSE,
       !.boundary = task.msg.m \in {"Query", "Sync", "Terminate"}]
  /\ IF conn.ioErr THEN End("none")
     ELSE Goto("serve") /\ UNCHANGED <<ses, portal, client>>
  /\ UNCHANGED <<env, db, drainer, left>>

Serving(m) == At("serve") /\ task.msg.m = m

\* extError: everything up to the next Sync is skipped.
extError == conn' = [conn EXCEPT !.skip = TRUE]

\* The cycle ends: portals do not survive an implicit transaction, and with
\* ReadyForQuery flushed the outcomes are the client's.
sendReady ==
  IF ~conn.open THEN End("none")
  ELSE /\ portal' = IF ses.state = "Open" THEN portal ELSE <<>>   \* reapPortals
       /\ client' = [client EXCEPT !.applied = FALSE]
       /\ Goto("top")
       /\ UNCHANGED ses

\* beginStatement: its own cancel registration.
beginStatement(todo, mode, max) ==
  /\ conn' = [conn EXCEPT !.stmt = @ + 1, !.cancelled = FALSE]
  /\ task' = [task EXCEPT !.pc = "exec", !.todo = todo, !.mode = mode,
                          !.max = max]

handleSimpleQuery ==
  /\ Serving("Query")
  /\ conn' = [conn EXCEPT !.skip = FALSE]
  /\ task' = [task EXCEPT !.pc = "query", !.todo = task.msg.stmts]
  /\ UNCHANGED <<env, db, ses, portal, client, drainer, left>>

\* The next statement of the query, COPY only as the last one.
NextStatement ==
  /\ At("query")
  /\ IF task.todo = <<>>
     THEN sendReady /\ UNCHANGED conn
     ELSE /\ UNCHANGED <<ses, portal>>
          /\ IF Head(task.todo) # "copy"
             THEN /\ beginStatement(task.todo, "query", 0)
                  /\ client' = Fresh("query")
             ELSE /\ IF Len(task.todo) > 1 \/ ses.state # "Idle"
                     THEN task' = [task EXCEPT !.todo = <<>>] ELSE Goto("copy")
                  /\ UNCHANGED <<conn, client>>
  /\ UNCHANGED <<env, db, drainer, left>>

\* COPY's message loop: chunks commit as they fill; Sync and Flush are
\* ignored, another message aborts the COPY and what follows is discarded.
handleCopyIn ==
  /\ task.pc \in {"copy", "skim"}
  /\ \/ /\ ~conn.open \/ conn.past
        /\ task' = [task EXCEPT !.pc = "query", !.todo = <<>>]
        /\ UNCHANGED <<db, client, left>>
     \/ /\ conn.open /\ left.messages > 0
        /\ left' = [left EXCEPT !.messages = @ - 1]
        /\ \/ /\ task' = [task EXCEPT !.pc = "query", !.todo = <<>>]
              /\ IF At("copy")
                 THEN db' = [db EXCEPT !.version = @ + 1] /\
                      client' = [client EXCEPT !.applied = TRUE]
                 ELSE UNCHANGED <<db, client>>
           \/ Goto("skim") /\ UNCHANGED <<db, client>>
           \/ At("copy") /\ db.version < env.versions /\ UNCHANGED task
              /\ db' = [db EXCEPT !.version = @ + 1]
              /\ client' = [client EXCEPT !.applied = TRUE]
  /\ UNCHANGED <<env, ses, conn, portal, drainer>>

\* What follows Execute: the registration ends, the answer is sent.
AfterQuery ==
  /\ At("after") /\ task.mode = "query"
  /\ conn' = [conn EXCEPT !.cancelled = FALSE]
  /\ task' = [task EXCEPT !.pc = "query", !.st = NoStream,
       !.todo = IF task.res = "error" THEN <<>> ELSE Tail(@)]
  /\ client' = [client EXCEPT !.applied = @ \/ task.res # "error",
       !.rows.query = IF task.res = "rows" THEN Wanted(task.st.snap) ELSE @,
       !.shown.query = IF task.res = "rows" THEN "complete" ELSE @]
  /\ UNCHANGED <<env, db, ses, portal, drainer, left>>

handleParse ==
  /\ Serving("Parse")
  /\ IF conn.skip THEN UNCHANGED conn
     ELSE conn' = [conn EXCEPT !.prepared = <<task.msg.stmt>>]
  /\ Goto("top")
  /\ UNCHANGED <<env, db, ses, portal, client, drainer, left>>

handleBind ==
  /\ Serving("Bind")
  /\ IF conn.skip THEN UNCHANGED <<conn, portal, client>>
     ELSE IF conn.prepared = <<>> THEN extError /\ UNCHANGED <<portal, client>>
     ELSE /\ portal' = <<[stmt |-> conn.prepared[1], res |-> "none",
                          st |-> NoStream, offset |-> 0, done |-> FALSE]>>
          /\ client' = Fresh("portal")
          /\ UNCHANGED conn
  /\ Goto("top")
  /\ UNCHANGED <<env, db, ses, drainer, left>>

handleClose ==
  /\ Serving("Close")
  /\ portal' = IF conn.skip THEN portal ELSE <<>>
  /\ Goto("top")
  /\ UNCHANGED <<env, db, ses, conn, client, drainer, left>>

\* Later Executes of a materialized portal serve the next rows of it.
ServeRows(pt, max) ==
  LET end == IF max = 0 THEN Limit ELSE Min2(Limit, pt.offset + max)
      all == Wanted(pt.st.snap)
  IN /\ portal' = <<[pt EXCEPT !.offset = end, !.done = end = Limit,
                               !.res = "rows"]>>
     /\ client' = [client EXCEPT !.rows.portal = @ \o SubSeq(all, pt.offset + 1, end),
                     !.shown.portal = IF end = Limit THEN "complete" ELSE @,
                     !.applied = TRUE]

\* handleExecute: the statement runs on the portal's first Execute; a
\* completed portal stays completed; a stream resumes where it stopped.
handleExecute ==
  /\ Serving("Execute")
  /\ IF conn.skip THEN Goto("top") /\ UNCHANGED <<conn, portal, client>>
     ELSE IF portal = <<>>
     THEN extError /\ Goto("top") /\ UNCHANGED <<portal, client>>
     ELSE LET pt == portal[1] IN
       IF pt.done THEN Goto("top") /\ UNCHANGED <<conn, portal, client>>
       ELSE IF pt.res = "none"
       THEN beginStatement(<<pt.stmt>>, "portal", task.msg.max)
            /\ UNCHANGED <<portal, client>>
       ELSE IF pt.res = "rows"
       THEN ServeRows(pt, task.msg.max) /\ Goto("top") /\ UNCHANGED conn
       ELSE IF ses.state = "Failed"
       THEN /\ extError /\ Goto("top")
            /\ portal' = <<[pt EXCEPT !.done = TRUE, !.st = CloseStream(@)]>>
            /\ UNCHANGED client
       ELSE /\ conn' = [conn EXCEPT !.stmt = @ + 1, !.cancelled = FALSE]
            /\ task' = [task EXCEPT !.pc = "pull", !.mode = "portal",
                 !.max = task.msg.max, !.st = pt.st, !.buf = <<>>, !.sent = 0]
            /\ UNCHANGED <<portal, client>>
  /\ UNCHANGED <<env, db, ses, drainer, left>>

\* The portal after Execute: suspended, completed, or failed.
AfterExecute ==
  /\ At("after") /\ task.mode = "portal"
  /\ conn' = [conn EXCEPT !.cancelled = FALSE, !.skip = @ \/ task.res = "error"]
  /\ task' = [task EXCEPT !.pc = "top", !.st = NoStream]
  /\ LET pt == IF portal = <<>> THEN <<>> ELSE portal[1] IN
     CASE portal = <<>> -> UNCHANGED <<portal, client>>
       [] portal # <<>> /\ task.res = "rows" ->
            ServeRows([pt EXCEPT !.st = task.st], task.max)
       [] portal # <<>> /\ task.res = "suspended" ->
            /\ portal' = <<[pt EXCEPT !.res = "stream", !.st = task.st]>>
            /\ client' = [client EXCEPT !.applied = TRUE]
       [] OTHER ->
            /\ portal' = <<[pt EXCEPT !.st = task.st,
                 !.done = task.res = "ok" \/ task.st.on # "none"]>>
            /\ client' = [client EXCEPT !.applied = @ \/ task.res = "ok"]
  /\ UNCHANGED <<env, db, ses, drainer, left>>

Sync ==
  /\ Serving("Sync")
  /\ conn' = [conn EXCEPT !.skip = FALSE]
  /\ sendReady
  /\ UNCHANGED <<env, db, drainer, left>>

\* Flush writes what is queued; copy messages outside copy mode are dropped;
\* Describe changes nothing.
Ignored ==
  /\ At("serve") /\ task.msg.m \in {"Flush", "Describe", "CopyData"}
  /\ Goto("top")
  /\ UNCHANGED <<env, db, ses, conn, portal, client, drainer, left>>

Terminate ==
  /\ Serving("Terminate")
  /\ End("none")
  /\ conn' = [conn EXCEPT !.open = FALSE]
  /\ UNCHANGED <<env, db, drainer, left>>

-----------------------------------------------------------------------------
(* Beside the connection.                                                 *)

\* conn.drain: an idle connection is woken, a busy one cut when hard.
drain(hard) ==
  conn' = IF ~conn.listed THEN conn ELSE
    LET c == [conn EXCEPT !.draining = TRUE, !.cut = @ \/ hard] IN
    IF c.idle /\ (hard \/ ~c.inTxn) THEN [c EXCEPT !.past = TRUE]
    ELSE IF hard THEN [c EXCEPT !.open = FALSE] ELSE c

DrainSoft ==
  /\ env.drain /\ drainer = "no"
  /\ drainer' = "soft"
  /\ drain(FALSE)
  /\ UNCHANGED <<env, db, ses, task, portal, client, left>>

\* The drain's deadline: what is still open is cut.
DrainHard ==
  /\ drainer = "soft" /\ ~At("end")
  /\ drainer' = "hard"
  /\ drain(TRUE)
  /\ UNCHANGED <<env, db, ses, task, portal, client, left>>

\* CancelBySecret reads the registration of the statement in flight ...
CancelRequest ==
  /\ left.cancels > 0 /\ left.held = 0
  /\ task.pc \in {"exec", "pull", "after"}
  /\ left' = [left EXCEPT !.cancels = @ - 1, !.held = conn.stmt]
  /\ UNCHANGED <<env, db, ses, conn, task, portal, client, drainer>>

\* ... and calls it after releasing the lock, when another may be running.
cancelStatement ==
  /\ left.held > 0
  /\ left' = [left EXCEPT !.held = 0]
  /\ conn' = [conn EXCEPT !.cancelled = @ \/
       (left.held = conn.stmt /\ task.pc \in {"exec", "pull", "after"})]
  /\ UNCHANGED <<env, db, ses, task, portal, client, drainer>>

\* Another client commits.
OtherWrite ==
  /\ left.writes > 0
  /\ left' = [left EXCEPT !.writes = @ - 1]
  /\ db' = [db EXCEPT !.version = @ + 1]
  /\ UNCHANGED <<env, ses, conn, task, portal, client, drainer>>

\* The client goes away.
Hangup ==
  /\ env.hangup /\ conn.open /\ task.pc \notin {"new", "end"}
  /\ conn' = [conn EXCEPT !.open = FALSE]
  /\ UNCHANGED <<env, db, ses, task, portal, client, drainer, left>>

Loop ==
  \/ Register \/ Top \/ Arm \/ Got \/ ReceiveFails
  \/ handleSimpleQuery \/ NextStatement \/ AfterQuery \/ handleCopyIn
  \/ handleParse \/ handleBind \/ handleClose \/ handleExecute \/ AfterExecute
  \/ Sync \/ Ignored \/ Terminate
  \/ Execute \/ PullFails \/ PullRow \/ Suspend

Beside == Receive \/ IdleTimeout \/ DrainSoft \/ DrainHard \/ CancelRequest
          \/ cancelStatement \/ OtherWrite \/ Hangup

Next == Loop \/ Beside

\* The goroutine runs, deadlines pass, and Drain goes on to its deadline.
Fairness == /\ WF_vars(Loop) /\ WF_vars(IdleTimeout) /\ WF_vars(DrainHard)
Spec == Init /\ [][Next]_vars /\ Fairness

-----------------------------------------------------------------------------
(* Properties.                                                            *)

TypeOK ==
  /\ ses.state \in {"Idle", "Open", "Failed"}
  /\ conn.idle \in BOOLEAN /\ conn.past \in BOOLEAN
  /\ \A by \in {"query", "portal"} : client.shown[by] \in {"partial", "complete"}
  /\ drainer \in {"no", "soft", "hard"}


\* Server.Drain: a connection it was told of ends, whatever it is doing: at
\* once, at the end of its block, or cut at the deadline.
DrainEnds == (drainer = "soft" /\ conn.draining) ~> At("end")
=============================================================================
