-------------------------------- MODULE Jobs --------------------------------
(* Foreground Bash commands, their promotion to background jobs and the Job  *)
(* tool: wizolt/tools/shell.py, session/jobs.py and base.run_blocking.       *)
(*                                                                           *)
(* Three kinds of actors share a command.  The event loop runs one tool call *)
(* at a time (both tools are barriers of the batch runner) together with the *)
(* pipe readers and the UI's polls; a worker thread runs the kill sequence;  *)
(* a daemon thread drains the pipes of a promoted command.  The command is a *)
(* process group of its own whose leader and descendants write, exit, or     *)
(* (Escapes) leave the group with setsid.                                    *)
(*                                                                           *)
(* A character is two bytes: byte 2k-1 and 2k make character k, and 0 is the *)
(* replacement character.  stdout and stderr follow the same code, so one    *)
(* stream stands for both; a promoted command's two streams differ only in   *)
(* which comes first in the merged tail.                                     *)
EXTENDS Integers, FiniteSets, SequencesExt

CONSTANTS Cmds,          \* the commands of the run, each started once
          MaxJobs,       \* JobTool.MAX_JOBS
          Busy,          \* bound: the commands that write, fork or close their output
          MaxBytes,      \* bound: bytes one of them writes
          BufferLimit,   \* BackgroundJob.BUFFER_LIMIT, in characters
          Promotes,      \* 0 < bash_wait_timeout < shell_timeout
          Escapes        \* a descendant may leave the process group

ASSUME JobsAssumption ==
  /\ MaxJobs \in Nat \ {0}
  /\ Busy \subseteq Cmds
  /\ MaxBytes \in Nat
  /\ BufferLimit \in Nat \ {0}
  /\ {Promotes, Escapes} \subseteq BOOLEAN

VARIABLES proc,      \* per command: its process group, its pipe and who reads it
          jobs,      \* Session.jobs, and Session.job_counter as `issued`
          issued,
          tool,      \* the tool call being executed
          worker,    \* the thread running BackgroundJob.kill
          report     \* what the last call returned

vars == <<proc, jobs, issued, tool, worker, report>>

NoProc == [leader |-> "none", child |-> "none", wrote |-> 0, pipe |-> <<>>, held |-> <<>>, reader |-> "none", mute |-> FALSE]
NoJob == [id |-> 0, status |-> "none", log |-> "none", parts |-> <<>>, seen |-> 0]
Idle == [kind |-> "idle", cmd |-> {}, step |-> "", clock |-> "early", text |-> <<>>, cancelled |-> FALSE]
Nothing == [how |-> "none", cmd |-> {}, text |-> <<>>]
Resting == [cmd |-> {}, step |-> "done"]

Init == /\ proc = [c \in Cmds |-> NoProc]
        /\ jobs = [c \in Cmds |-> NoJob]
        /\ issued = 0
        /\ tool = Idle
        /\ worker = Resting
        /\ report = Nothing

-----------------------------------------------------------------------------
(* Processes                                                                 *)

\* Popen.poll(): a leader that has exited is reaped; None means still running.
Polled(p) == IF p.leader = "exited" THEN [p EXCEPT !.leader = "reaped"] ELSE p
Running(p) == p.leader = "running"

\* os.killpg(pid, SIGKILL), or Popen.kill when the group is gone.
KillGroup(p) == [p EXCEPT !.leader = IF @ = "running" THEN "exited" ELSE @,
                          !.child = IF @ = "group" THEN "gone" ELSE @]

\* The write ends of the pipe that are still open.
HasWriter(p) == ~p.mute /\ (Running(p) \/ p.child \in {"group", "escaped"})

\* codecs incremental decoder: the characters of the bytes held back and read, and what is held next.
Decode(held, data, final) ==
  LET all == held \o data
      pair(i) == IF all[2*i - 1] % 2 = 1 /\ all[2*i] = all[2*i - 1] + 1 THEN all[2*i] \div 2 ELSE 0
      cut == Len(all) % 2 = 1
  IN [text |-> [i \in 1..(Len(all) \div 2) |-> pair(i)] \o (IF cut /\ final THEN <<0>> ELSE <<>>),
      held |-> IF cut /\ ~final THEN <<Last(all)>> ELSE <<>>]

Write(c) == /\ c \in Busy /\ HasWriter(proc[c])
            /\ proc[c].wrote < MaxBytes
            /\ proc' = [proc EXCEPT ![c].wrote = @ + 1,
                                    ![c].pipe = IF proc[c].reader = "log" THEN @ ELSE Append(@, proc[c].wrote + 1)]
            /\ UNCHANGED <<jobs, issued, tool, worker, report>>

\* The shell leaves a descendant behind that inherited its pipes.
Spawn(c) == /\ c \in Busy /\ Running(proc[c])
            /\ proc[c].child = "none"
            /\ \E where \in {"group"} \cup (IF Escapes THEN {"escaped"} ELSE {}):
                 proc' = [proc EXCEPT ![c].child = where]
            /\ UNCHANGED <<jobs, issued, tool, worker, report>>

\* The command closes its output and goes on (`exec >&- 2>&-`).
CloseOutput(c) == /\ c \in Busy /\ Running(proc[c]) /\ HasWriter(proc[c])
                  /\ proc' = [proc EXCEPT ![c].mute = TRUE]
                  /\ UNCHANGED <<jobs, issued, tool, worker, report>>

Exit(c) == /\ \/ /\ Running(proc[c])
                 /\ proc' = [proc EXCEPT ![c].leader = "exited"]
              \/ /\ proc[c].child \in {"group", "escaped"}
                 /\ proc' = [proc EXCEPT ![c].child = "gone"]
           /\ UNCHANGED <<jobs, issued, tool, worker, report>>

-----------------------------------------------------------------------------
(* The bounded tail of a promoted job                                        *)

\* append_stream: whole parts leave the front while more than one is there, then the last is cut.
Trimmed(parts) ==
  LET size(k) == Len(FlattenSeq(SubSeq(parts, k + 1, Len(parts))))
      k == CHOOSE n \in 0..(Len(parts) - 1):
             /\ n = Len(parts) - 1 \/ size(n) <= BufferLimit
             /\ \A m \in 0..(n - 1): size(m) > BufferLimit
      rest == SubSeq(parts, k + 1, Len(parts))
      only == Head(rest)
  IN IF size(k) > BufferLimit THEN <<SubSeq(only, Len(only) - BufferLimit + 1, Len(only))>> ELSE rest

AppendStream(job, text) ==
  IF text = <<>> THEN job
  ELSE [job EXCEPT !.parts = Trimmed(Append(@, text)), !.seen = @ + Len(text)]

Tail_(job) == FlattenSeq(job.parts)

-----------------------------------------------------------------------------
(* BashTool.call and stream_process                                          *)

Return(how, c, text) == /\ report' = [how |-> how, cmd |-> {c}, text |-> text]
                        /\ tool' = Idle

StartBash(c) == /\ tool = Idle
                /\ proc[c] = NoProc
                /\ proc' = [proc EXCEPT ![c] = [NoProc EXCEPT !.leader = "running", !.reader = "loop"]]
                /\ tool' = [Idle EXCEPT !.kind = "bash", !.cmd = {c}, !.step = "stream"]
                /\ report' = Nothing
                /\ UNCHANGED <<jobs, issued, worker>>

\* read_ready: some bytes, or EOF once every write end is closed, which closes the pipe.
ReadReady(c) ==
  /\ tool.step = "stream" /\ tool.cmd = {c} /\ proc[c].reader = "loop"
  /\ \/ \E n \in 1..Len(proc[c].pipe):
          LET d == Decode(proc[c].held, SubSeq(proc[c].pipe, 1, n), FALSE) IN
          /\ tool' = [tool EXCEPT !.text = @ \o d.text]
          /\ proc' = [proc EXCEPT ![c].pipe = SubSeq(@, n + 1, Len(@)), ![c].held = d.held]
     \/ /\ proc[c].pipe = <<>> /\ ~HasWriter(proc[c])
        /\ tool' = [tool EXCEPT !.text = @ \o Decode(proc[c].held, <<>>, TRUE).text]
        /\ proc' = [proc EXCEPT ![c].held = <<>>, ![c].reader = "none"]
  /\ UNCHANGED <<jobs, issued, worker, report>>

\* Time passes the promotion deadline, then the shell deadline.
Tick == /\ tool.step \in {"stream", "poll"}
        /\ \/ tool.clock = "early" /\ tool' = [tool EXCEPT !.clock = "late"]
           \/ tool.clock = "late" /\ tool' = [tool EXCEPT !.clock = "over"]
        /\ UNCHANGED <<proc, jobs, issued, worker, report>>

\* The loop's condition is false: both pipes at EOF and the leader reaped.
Finish(c) ==
  /\ tool.step = "stream" /\ tool.cmd = {c}
  /\ proc[c].reader = "none" /\ ~Running(proc[c])
  /\ proc' = [proc EXCEPT ![c] = Polled(@)]
  /\ Return(IF tool.clock = "killed" THEN "timeout" ELSE "done", c, tool.text)
  /\ UNCHANGED <<jobs, issued, worker>>

\* promote_to_job: the pipes, the bytes the decoders hold back and the text read so far change hands.
Promote(c) ==
  /\ Promotes
  /\ tool.step = "stream" /\ tool.cmd = {c} /\ tool.clock \in {"late", "over"}
  /\ Running(proc[c])
  /\ issued' = issued + 1
  /\ jobs' = [jobs EXCEPT ![c] = AppendStream([NoJob EXCEPT !.id = issued + 1, !.status = "running", !.log = "memory"],
                                              tool.text)]
  /\ proc' = [proc EXCEPT ![c].reader = IF @ = "loop" THEN "drainer" ELSE @]
  /\ Return("promoted", c, tool.text)
  /\ UNCHANGED worker

\* Mutant: the deadline kills the shell and not its group.
ShellTimeoutKillsLeader(c) ==
  /\ tool.step = "stream" /\ tool.cmd = {c} /\ tool.clock = "over"
  /\ proc[c].reader = "loop" \/ Running(proc[c])
  /\ ~(Promotes /\ Running(proc[c]))
  /\ proc' = [proc EXCEPT ![c].leader = IF @ = "running" THEN "exited" ELSE @]
  /\ tool' = [tool EXCEPT !.clock = "killed"]
  /\ UNCHANGED <<jobs, issued, worker, report>>

\* The shell deadline: the group is killed once and the loop goes on draining.
ShellTimeout(c) ==
  /\ tool.step = "stream" /\ tool.cmd = {c} /\ tool.clock = "over"
  /\ proc[c].reader = "loop" \/ Running(proc[c])
  /\ ~(Promotes /\ Running(proc[c]))
  /\ proc' = [proc EXCEPT ![c] = KillGroup(Polled(@))]
  /\ tool' = [tool EXCEPT !.clock = "killed"]
  /\ UNCHANGED <<jobs, issued, worker, report>>

\* Mutant: cancellation closes the pipes and leaves the command alone.
CancelAbandons(c) ==
  /\ tool.step = "stream" /\ tool.cmd = {c}
  /\ proc' = [proc EXCEPT ![c].reader = "none"]
  /\ Return("cancelled", c, <<>>)
  /\ UNCHANGED <<jobs, issued, worker>>

\* CancelledError at the loop's await: kill the group, then poll until it is reaped.
CancelBash(c) ==
  /\ tool.step = "stream" /\ tool.cmd = {c}
  /\ proc' = [proc EXCEPT ![c] = KillGroup(@)]
  /\ tool' = [tool EXCEPT !.step = "reap", !.cancelled = TRUE]
  /\ UNCHANGED <<jobs, issued, worker, report>>

Reap(c) ==
  /\ tool.step = "reap" /\ tool.cmd = {c} /\ ~Running(proc[c])
  /\ proc' = [proc EXCEPT ![c] = [Polled(@) EXCEPT !.pipe = <<>>, !.held = <<>>, !.reader = "none"]]
  /\ Return("cancelled", c, <<>>)
  /\ UNCHANGED <<jobs, issued, worker>>

\* drain_pipes: the daemon thread of a promoted job.
Drain(c) ==
  /\ proc[c].reader = "drainer"
  /\ \/ \E n \in 1..Len(proc[c].pipe):
          LET d == Decode(proc[c].held, SubSeq(proc[c].pipe, 1, n), FALSE) IN
          /\ jobs' = [jobs EXCEPT ![c] = AppendStream(@, d.text)]
          /\ proc' = [proc EXCEPT ![c].pipe = SubSeq(@, n + 1, Len(@)), ![c].held = d.held]
     \/ /\ proc[c].pipe = <<>> /\ ~HasWriter(proc[c])
        /\ jobs' = [jobs EXCEPT ![c] = AppendStream(@, Decode(proc[c].held, <<>>, TRUE).text)]
        /\ proc' = [proc EXCEPT ![c].held = <<>>, ![c].reader = "none"]
  /\ UNCHANGED <<issued, tool, worker, report>>

-----------------------------------------------------------------------------
(* JobTool                                                                   *)

\* BackgroundJob.update_status of every job of S: one non-blocking poll each.
Active(S) == {c \in S: jobs[c].status = "running"}
UpdatedProc(S) == [c \in Cmds |-> IF c \in Active(S) THEN Polled(proc[c]) ELSE proc[c]]
UpdatedJobs(S) == [c \in Cmds |-> IF c \in Active(S) /\ ~Running(proc[c]) THEN [jobs[c] EXCEPT !.status = "done"] ELSE jobs[c]]

\* _start: running_jobs() polls them all before the cap is applied.
StartJob(c) ==
  /\ tool = Idle /\ proc[c] = NoProc
  /\ LET running == {d \in Active(Cmds): Running(proc[d])}
         started == [NoProc EXCEPT !.leader = "running", !.reader = "log"]
     IN IF Cardinality(running) >= MaxJobs
        THEN /\ proc' = UpdatedProc(Cmds) /\ jobs' = UpdatedJobs(Cmds)
             /\ Return("refused", c, <<>>) /\ UNCHANGED issued
        ELSE /\ issued' = issued + 1
             /\ proc' = [UpdatedProc(Cmds) EXCEPT ![c] = started]
             /\ jobs' = [UpdatedJobs(Cmds) EXCEPT ![c] = [NoJob EXCEPT !.id = issued + 1, !.status = "running", !.log = "file"]]
             /\ Return("started", c, <<>>)
  /\ UNCHANGED worker

\* _list, /ps, the status bar and the job viewer: polls that may run beside any call.
ListJobs == /\ Active(Cmds) # {}
            /\ proc' = UpdatedProc(Cmds)
            /\ jobs' = UpdatedJobs(Cmds)
            /\ UNCHANGED <<issued, tool, worker, report>>

\* _wait and a _status with a timeout: _resolve_job, then slices until done, deadline or Ctrl-C.
WaitJob(c) == /\ tool = Idle /\ jobs[c] # NoJob
              /\ proc' = UpdatedProc({c}) /\ jobs' = UpdatedJobs({c})
              /\ tool' = [Idle EXCEPT !.kind = "wait", !.cmd = {c}, !.step = "poll"]
              /\ report' = Nothing
              /\ UNCHANGED <<issued, worker>>

\* The last update_status of _await_process, and what _format says of the job.
WaitEnds(c) ==
  /\ tool.step = "poll" /\ tool.cmd = {c}
  /\ ~Running(proc[c]) \/ tool.clock = "over"
  /\ proc' = UpdatedProc({c}) /\ jobs' = UpdatedJobs({c})
  /\ Return(jobs'[c].status, c, Tail_(jobs[c]))
  /\ UNCHANGED <<issued, worker>>

\* Cancelling a wait abandons the wait, not the job.
CancelWait(c) == /\ tool.step = "poll" /\ tool.cmd = {c}
                 /\ Return("cancelled", c, <<>>)
                 /\ UNCHANGED <<proc, jobs, issued, worker>>

\* _kill: the sequence runs on a worker, and run_blocking never abandons it.
KillJob(c) == /\ tool = Idle /\ jobs[c] # NoJob
              /\ proc' = UpdatedProc({c}) /\ jobs' = UpdatedJobs({c})
              /\ tool' = [Idle EXCEPT !.kind = "kill", !.cmd = {c}, !.step = "join"]
              /\ worker' = [cmd |-> {c}, step |-> "check"]
              /\ report' = Nothing
              /\ UNCHANGED issued

\* SIGTERM to a job not yet seen to end; the processes may heed it (Exit) or not.
Term(c) == /\ worker = [cmd |-> {c}, step |-> "check"]
           /\ worker' = [worker EXCEPT !.step = IF jobs[c].status = "running" THEN "grace" ELSE "unlink"]
           /\ UNCHANGED <<proc, jobs, issued, tool, report>>

\* process.wait(grace): the leader has gone, or SIGKILL ends the group and wait() returns.
Grace(c) == /\ worker = [cmd |-> {c}, step |-> "grace"]
            /\ worker' = [worker EXCEPT !.step = "update"]
            /\ proc' = [proc EXCEPT ![c] = IF Running(@) THEN Polled(KillGroup(@)) ELSE Polled(@)]
            /\ UNCHANGED <<jobs, issued, tool, report>>

KillUpdate(c) == /\ worker = [cmd |-> {c}, step |-> "update"]
                 /\ worker' = [worker EXCEPT !.step = "unlink"]
                 /\ jobs' = [UpdatedJobs({c}) EXCEPT ![c].status = IF @ = "running" THEN "killed" ELSE @]
                 /\ proc' = UpdatedProc({c})
                 /\ UNCHANGED <<issued, tool, report>>

Unlink(c) == /\ worker = [cmd |-> {c}, step |-> "unlink"]
             /\ worker' = Resting
             /\ jobs' = [jobs EXCEPT ![c].log = IF @ = "file" THEN "gone" ELSE @]
             /\ UNCHANGED <<proc, issued, tool, report>>

CancelKill == /\ tool.step = "join" /\ ~tool.cancelled
              /\ tool' = [tool EXCEPT !.cancelled = TRUE]
              /\ UNCHANGED <<proc, jobs, issued, worker, report>>

\* run_blocking: the outcome is read only once the future is done, cancelled or not.
Join(c) == /\ tool.step = "join" /\ tool.cmd = {c} /\ worker = Resting
           /\ Return(IF tool.cancelled THEN "cancelled" ELSE "ended", c, <<>>)
           /\ UNCHANGED <<proc, jobs, issued, worker>>

-----------------------------------------------------------------------------
Next == \/ \E c \in Cmds: \/ Write(c) \/ Spawn(c) \/ CloseOutput(c) \/ Exit(c)
                          \/ StartBash(c) \/ ReadReady(c) \/ Finish(c) \/ Promote(c)
                          \/ ShellTimeout(c) \/ CancelBash(c) \/ Reap(c) \/ Drain(c)
                          \/ StartJob(c) \/ WaitJob(c) \/ WaitEnds(c) \/ CancelWait(c)
                          \/ KillJob(c) \/ Term(c) \/ Grace(c) \/ KillUpdate(c) \/ Unlink(c)
                          \/ Join(c)
        \/ Tick \/ ListJobs \/ CancelKill

Spec == Init /\ [][Next]_vars

\* The event loop, the threads and the clock go on; no command is obliged to write or to exit.
Fairness == /\ WF_vars(Tick)
            /\ \A c \in Cmds: /\ WF_vars(ReadReady(c)) /\ WF_vars(Drain(c))
                              /\ WF_vars(Finish(c) \/ Promote(c) \/ ShellTimeout(c)) /\ WF_vars(Reap(c))
                              /\ WF_vars(WaitEnds(c))
                              /\ WF_vars(Term(c) \/ Grace(c) \/ KillUpdate(c) \/ Unlink(c)) /\ WF_vars(Join(c))

FairSpec == Spec /\ Fairness

-----------------------------------------------------------------------------
(* Properties                                                                *)

Steps == {"", "stream", "reap", "poll", "join"}

TypeOK ==
  /\ proc \in [Cmds -> [leader: {"none", "running", "exited", "reaped"}, child: {"none", "group", "escaped", "gone"},
                        wrote: 0..MaxBytes, pipe: Seq(1..MaxBytes), held: Seq(1..MaxBytes),
                        reader: {"none", "loop", "drainer", "log"}, mute: BOOLEAN]]
  /\ jobs \in [Cmds -> [id: Nat, status: {"none", "running", "done", "killed"}, log: {"none", "file", "memory", "gone"},
                        parts: Seq(Seq(0..MaxBytes)), seen: 0..MaxBytes]]
  /\ \A c \in Cmds: Len(Tail_(jobs[c])) <= BufferLimit
  /\ issued \in 0..Cardinality(Cmds)
  /\ tool \in [kind: {"idle", "bash", "wait", "kill"}, cmd: SUBSET Cmds, step: Steps,
               clock: {"early", "late", "over", "killed"}, text: Seq(0..MaxBytes), cancelled: BOOLEAN]
  /\ worker \in [cmd: SUBSET Cmds, step: {"done", "check", "grace", "update", "unlink"}]
  /\ report \in [how: {"none", "done", "timeout", "promoted", "cancelled", "refused", "started", "running", "killed", "ended"},
                 cmd: SUBSET Cmds, text: Seq(0..MaxBytes)]

\* No command runs unattended: a live process is the one a Bash call is streaming, or a job that
\* says it is running and can be waited for or killed.  Cancellation, the shell deadline and
\* promotion each hand the process over or end it (stream_process, promote_to_job).
RunningIsOwned ==
  \A c \in Cmds: Running(proc[c]) => \/ tool.kind = "bash" /\ tool.cmd = {c}
                                     \/ jobs[c].status = "running"

\* What the first n bytes decode to.
Decoded(n, final) == [i \in 1..(n \div 2) |-> i] \o (IF n % 2 = 1 /\ final THEN <<0>> ELSE <<>>)
Taken(c) == Decoded(proc[c].wrote - Len(proc[c].pipe), proc[c].reader = "none")

\* Every byte taken off the pipe is in the text, once, in order and with no character broken at a
\* read or at promotion: the whole text while Bash streams, and a bounded tail of it, never empty
\* while there is something to show, once the command is a job.
OutputKept ==
  \A c \in Cmds:
    /\ tool.step = "stream" /\ tool.cmd = {c} => tool.text = Taken(c)
    /\ jobs[c].log = "memory" => /\ IsSuffix(Tail_(jobs[c]), Taken(c))
                                 /\ jobs[c].seen = Len(Taken(c))
                                 /\ Taken(c) # <<>> => Tail_(jobs[c]) # <<>>

\* A Bash result that reports an exit holds everything the command and its descendants wrote.
ResultIsWhole ==
  \A c \in Cmds: report.how = "done" /\ report.cmd = {c} /\ jobs[c] = NoJob =>
                   report.text = Decoded(proc[c].wrote, TRUE)

\* The kill sequence is never left half done: no call returns while its worker is still signalling,
\* and a job reported killed has ended, says so, and has no log file any more.
KillIsWhole ==
  /\ tool.kind # "kill" => worker = Resting
  /\ report.how = "ended" => \A c \in report.cmd: /\ proc[c].leader = "reaped"
                                                  /\ jobs[c].status # "running" /\ jobs[c].log # "file"

\* Every call returns: Bash by its deadlines, wait by its budget, kill by its escalation.
CallReturns == (tool.kind # "idle") ~> (tool.kind = "idle")

\* A job that reports it is done reports the end of its output: "any output above is partial" is
\* said of running jobs only (tools/shell.py:635).  The drainer may lag behind the poll.
DoneIsFinal ==
  \A c \in Cmds: report.how = "done" /\ report.cmd = {c} /\ jobs[c].log = "memory" /\ ~HasWriter(proc[c]) =>
                   IsSuffix(report.text, Decoded(proc[c].wrote, TRUE))

\* Every process has an owner until it has ended, a kill is whole, and no output is lost, repeated or
\* reported short.
JobsSound == TypeOK /\ RunningIsOwned /\ KillIsWhole /\ OutputKept /\ ResultIsWhole
=============================================================================
