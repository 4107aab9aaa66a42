----------------------------- MODULE SystemCalls -----------------------------
(***************************************************************************)
(* examples/systemcalls/systemcalls.c: do_system, do_exec and              *)
(* do_exec_redirect as the processes of a program call them, with every    *)
(* system call that may fail failing.                                      *)
(***************************************************************************)
EXTENDS Integers, FiniteSets

CONSTANTS
  Process,     \* process numbers
  Main,        \* the first one
  MaxCalls     \* bound: calls of the three functions

VARIABLES
  pc,          \* where in the three functions a process is; "free" when there
               \* is none, "command" when execv has replaced the program
  call,        \* the function it is in
  kidpid,      \* the child its call has forked
  status,      \* with which it ended
  stdout,      \* where its descriptor 1 leads
  fds,         \* how many descriptors of output files it has open
  returned,    \* what its last call returned
  ran,         \* history: the processes that became the command
  calls

vars == <<pc, call, kidpid, status, stdout, fds, returned, ran, calls>>

(* A process has ended and waits to be waited for. *)
Ended(p, how) ==
  /\ pc' = [pc EXCEPT ![p] = "ended"]
  /\ status' = [status EXCEPT ![p] = how]

Goto(p, step) == pc' = [pc EXCEPT ![p] = step]

(* The function returns to its caller. *)
Returns(p, b) ==
  /\ returned' = [returned EXCEPT ![p] = b]
  /\ Goto(p, "user")

-----------------------------------------------------------------------------

Call(p, f) ==
  /\ pc[p] = "user"
  /\ calls < MaxCalls
  /\ calls' = calls + 1
  /\ call' = [call EXCEPT ![p] = f]
  /\ Goto(p, CASE f = "do_system"        -> "system"
               [] f = "do_exec"          -> "fork"
               [] f = "do_exec_redirect" -> "open")
  /\ UNCHANGED <<kidpid, status, stdout, fds, returned, ran>>

(* system returns -1, or the status of the command, whatever that is. *)
System(p) ==
  /\ pc[p] = "system"
  /\ \E b \in BOOLEAN : Returns(p, b)
  /\ UNCHANGED <<call, kidpid, status, stdout, fds, ran, calls>>

(* The program's own end. *)
Exit(p) ==
  /\ pc[p] = "user"
  /\ Ended(p, "0")
  /\ UNCHANGED <<call, kidpid, stdout, fds, returned, ran, calls>>

(* open of the output file, before the fork.  A failure aborts the program. *)
Open(p) ==
  /\ pc[p] = "open"
  /\ \/ /\ fds' = [fds EXCEPT ![p] = @ + 1]
        /\ Goto(p, "fork")
        /\ UNCHANGED status
     \/ Ended(p, "signal") /\ UNCHANGED fds
  /\ UNCHANGED <<call, kidpid, stdout, returned, ran, calls>>

(* The child is a copy of its parent, descriptors included. *)
Fork(p) ==
  /\ pc[p] = "fork"
  /\ \/ Returns(p, FALSE) /\ UNCHANGED <<call, kidpid, stdout, fds>>
     \/ \E k \in Process :
          /\ pc[k] = "free"
          /\ pc' = [pc EXCEPT ![p] = "wait",
                              ![k] = IF call[p] = "do_exec" THEN "execv" ELSE "dup2"]
          /\ kidpid' = [kidpid EXCEPT ![p] = k]
          /\ call' = [call EXCEPT ![k] = call[p]]
          /\ stdout' = [stdout EXCEPT ![k] = stdout[p]]
          /\ fds' = [fds EXCEPT ![k] = fds[p]]
          /\ UNCHANGED returned
  /\ UNCHANGED <<status, ran, calls>>

(* The child's output goes to the file. *)
Dup2(p) ==
  /\ pc[p] = "dup2"
  /\ \/ /\ stdout' = [stdout EXCEPT ![p] = "file"]
        /\ Goto(p, "execv")
        /\ UNCHANGED status
     \/ Ended(p, "signal") /\ UNCHANGED stdout
  /\ UNCHANGED <<call, kidpid, fds, returned, ran, calls>>

(* A child of do_exec that returns where its parent would. *)
ExecvFails_returns(p) == Returns(p, FALSE) /\ UNCHANGED status

(* execv has failed: the child of do_exec exits, that of do_exec_redirect   *)
(* returns to the caller, as a second copy of the program.                  *)
ExecvFails(p) ==
  IF call[p] = "do_exec"
  THEN Ended(p, "1") /\ UNCHANGED returned
  ELSE Returns(p, FALSE) /\ UNCHANGED status

Execv(p) ==
  /\ pc[p] = "execv"
  /\ \/ /\ Goto(p, "command")
        /\ ran' = ran \cup {p}
        /\ UNCHANGED <<status, returned>>
     \/ ExecvFails(p) /\ UNCHANGED ran
  /\ UNCHANGED <<call, kidpid, stdout, fds, calls>>

(* The command comes to its end. *)
Command(p) ==
  /\ pc[p] = "command"
  /\ \E how \in {"0", "1", "signal"} : Ended(p, how)
  /\ UNCHANGED <<call, kidpid, stdout, fds, returned, ran, calls>>

(* A test of the exit status alone. *)
Success_exitedOnly(how) == how # "1"

(* WIFEXITED and WEXITSTATUS, then !wstatus. *)
Success(how) == how = "0"

(* waitpid reaps the child. *)
Reap(p) ==
  /\ pc[p] = "wait"
  /\ pc[kidpid[p]] = "ended"
  /\ returned' = [returned EXCEPT ![p] = Success(status[kidpid[p]])]
  /\ pc' = [pc EXCEPT ![p] = "user", ![kidpid[p]] = "reaped"]
  /\ UNCHANGED <<call, kidpid, status, stdout, fds, ran, calls>>

(* waitpid fails, interrupted for one, and the child stays. *)
WaitpidFails(p) ==
  /\ pc[p] = "wait"
  /\ Returns(p, FALSE)
  /\ UNCHANGED <<call, kidpid, status, stdout, fds, ran, calls>>

-----------------------------------------------------------------------------

Init ==
  /\ pc = [p \in Process |-> IF p = Main THEN "user" ELSE "free"]
  /\ call = [p \in Process |-> "none"]
  /\ kidpid = [p \in Process |-> p]
  /\ status = [p \in Process |-> "none"]
  /\ stdout = [p \in Process |-> "terminal"]
  /\ fds = [p \in Process |-> 0]
  /\ returned = [p \in Process |-> FALSE]
  /\ ran = {}
  /\ calls = 0

(* What a process does on its own once it is in one of the functions. *)
Step(p) == System(p) \/ Open(p) \/ Fork(p) \/ Dup2(p) \/ Execv(p) \/ Command(p) \/ Reap(p)

Next ==
  \E p \in Process :
    \/ Step(p) \/ WaitpidFails(p) \/ Exit(p)
    \/ \E f \in {"do_system", "do_exec", "do_exec_redirect"} : Call(p, f)

(* Processes run when they can and commands end; the program owes nothing, *)
(* and a waitpid need not fail.                                             *)
Fairness == \A p \in Process : WF_vars(Step(p))

FairSpec == Init /\ [][Next]_vars /\ Fairness

-----------------------------------------------------------------------------
(* Properties.                                                              *)

(* Where a process runs the code of the program or of one of its calls. *)
InCall == {"system", "open", "fork", "wait"}
RunsProgram(p) == pc[p] \in InCall \cup {"user"}

(* Whoever runs the program's code is the first process or the child of a   *)
(* do_exec_redirect whose execv failed, with its output already diverted.   *)
(* do_exec never comes back twice.                                          *)
OnlyRedirectReturnsTwice ==
  \A p \in Process :
    RunsProgram(p) /\ p # Main =>
      stdout[p] = "file" /\ p \notin ran

(* The answer TRUE of p is about its own child, which became the command    *)
(* and ended with 0: neither a failed fork, execv or waitpid nor a command  *)
(* that failed, or that a signal ended, is taken for a success, and the     *)
(* child of an earlier call is not either.                                  *)
AnswersForItsCommand(p) ==
  LET k == kidpid[p]
  IN  returned[p] => k # p /\ k \in ran /\ pc[k] = "reaped" /\ status[k] = "0"

(* do_exec says TRUE only of a command that ran and ended with 0.           *)
TrueMeansSuccess ==
  \A p \in Process :
    pc[p] = "user" /\ call[p] = "do_exec" => AnswersForItsCommand(p)

(* A call returns or ends its process, except a do_exec_redirect that waits *)
(* for a second copy of the program which goes on for ever.                 *)
CallsReturn ==
  \A p \in Process :
    <>[](pc[p] \in InCall) =>
      <>[](call[p] = "do_exec_redirect" /\ kidpid[p] # p /\ RunsProgram(kidpid[p]))

-----------------------------------------------------------------------------
(* What the documentation says and the code does not do.                    *)

(* systemcalls.c:142 says of do_exec_redirect "The rest of the behaviour is *)
(* same as do_exec()", whose result is "false if an error occurred, either  *)
(* in invocation of the fork, waitpid, or execv() command" (:44-45): it     *)
(* says TRUE only of a command that ran and ended with 0.                   *)
RedirectTrueMeansSuccess ==
  \A p \in Process :
    pc[p] = "user" /\ call[p] = "do_exec_redirect" => AnswersForItsCommand(p)

=============================================================================
