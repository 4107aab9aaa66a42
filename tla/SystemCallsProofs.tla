-------------------------- MODULE SystemCallsProofs --------------------------
(* Theorems about SystemCalls, for any number of processes and calls. *)
EXTENDS SystemCalls, TLAPS

(* A child of do_exec_redirect on its way to execv, and behind it, writes   *)
(* to the file; a process that became the command does not come back.       *)
ProcessInv(p) ==
  /\ pc[p] \in {"free", "user", "system", "open", "fork", "wait", "dup2", "execv",
                "command", "ended", "reaped"}
  /\ p = Main => pc[p] \notin {"free", "dup2", "execv"}
  /\ pc[p] = "execv" /\ call[p] # "do_exec" => stdout[p] = "file"
  /\ p \in ran => pc[p] \in {"command", "ended", "reaped"}

Functions ==
  /\ pc = [p \in Process |-> pc[p]]
  /\ call = [p \in Process |-> call[p]]
  /\ stdout = [p \in Process |-> stdout[p]]

Inv ==
  /\ Functions
  /\ \A p \in Process : ProcessInv(p)
  /\ OnlyRedirectReturnsTwice

LEMMA InitInv == Init => Inv
  BY DEF Init, Inv, Functions, ProcessInv, OnlyRedirectReturnsTwice, RunsProgram, InCall

(* A process moves on within the program, or ends, and nothing else changes *)
(* that the invariant speaks of.                                            *)
LEMMA MoveInv ==
  ASSUME Inv, NEW p \in Process, NEW step,
         \/ RunsProgram(p) /\ step \in InCall \cup {"user"}
         \/ pc[p] # "free" /\ step = "ended",
         Goto(p, step), stdout' = stdout, ran' = ran, call' = call
  PROVE  Inv'
  BY DEF Inv, Functions, ProcessInv, OnlyRedirectReturnsTwice, RunsProgram, InCall, Goto

LEMMA NextInv == Inv /\ [Next]_vars => Inv'
<1> SUFFICES ASSUME Inv, [Next]_vars PROVE Inv'
  OBVIOUS
<1> USE DEF RunsProgram, InCall
<1>1. CASE UNCHANGED vars
  BY <1>1 DEF vars, Inv, Functions, ProcessInv, OnlyRedirectReturnsTwice
<1>2. ASSUME NEW p \in Process, NEW f \in {"do_system", "do_exec", "do_exec_redirect"},
             Call(p, f)
      PROVE Inv'
  <2>1. \E step \in {"system", "fork", "open"} : Goto(p, step)
    BY <1>2 DEF Call
  <2>2. pc[p] = "user" /\ call' = [call EXCEPT ![p] = f] /\ UNCHANGED <<stdout, ran>>
    BY <1>2 DEF Call
  <2>3. QED
    BY <2>1, <2>2 DEF Goto, Inv, Functions, ProcessInv, OnlyRedirectReturnsTwice
<1>3. ASSUME NEW p \in Process, System(p) \/ WaitpidFails(p) PROVE Inv'
  BY <1>3, MoveInv DEF System, WaitpidFails, Returns
<1>4. ASSUME NEW p \in Process, Exit(p) \/ Command(p) PROVE Inv'
  <2>1. pc[p] \in {"user", "command"} /\ Goto(p, "ended") /\ UNCHANGED <<stdout, ran, call>>
    BY <1>4 DEF Exit, Command, Ended, Goto
  <2>2. QED
    BY <2>1, MoveInv
<1>5. ASSUME NEW p \in Process, Open(p) PROVE Inv'
  BY <1>5, MoveInv DEF Open, Ended, Goto
<1>6. ASSUME NEW p \in Process, Fork(p) PROVE Inv'
  <2>1. CASE Returns(p, FALSE) /\ UNCHANGED <<call, kidpid, stdout, fds>>
    BY <1>6, <2>1, MoveInv DEF Fork, Returns
  <2>2. ASSUME NEW k \in Process, pc[k] = "free",
               pc' = [pc EXCEPT ![p] = "wait",
                                ![k] = IF call[p] = "do_exec" THEN "execv" ELSE "dup2"],
               call' = [call EXCEPT ![k] = call[p]],
               stdout' = [stdout EXCEPT ![k] = stdout[p]]
        PROVE Inv'
    <3>1. UNCHANGED ran /\ pc[p] = "fork"
      BY <1>6 DEF Fork
    <3>2. k # p /\ k # Main /\ k \notin ran
      BY <2>2, <3>1 DEF Inv, ProcessInv
    <3>3. QED
      BY <2>2, <3>1, <3>2 DEF Inv, Functions, ProcessInv, OnlyRedirectReturnsTwice
  <2>3. QED
    BY <1>6, <2>1, <2>2 DEF Fork
<1>7. ASSUME NEW p \in Process, Dup2(p) PROVE Inv'
  <2>1. CASE Ended(p, "signal") /\ UNCHANGED stdout
    BY <1>7, <2>1, MoveInv DEF Dup2, Ended, Goto
  <2>2. CASE stdout' = [stdout EXCEPT ![p] = "file"] /\ Goto(p, "execv")
    BY <1>7, <2>2 DEF Dup2, Goto, Inv, Functions, ProcessInv, OnlyRedirectReturnsTwice
  <2>3. QED
    BY <1>7, <2>1, <2>2 DEF Dup2
<1>8. ASSUME NEW p \in Process, Execv(p) PROVE Inv'
  <2>1. pc[p] = "execv" /\ UNCHANGED <<call, stdout>>
    BY <1>8 DEF Execv
  <2>2. CASE Goto(p, "command") /\ ran' = ran \cup {p}
    BY <2>1, <2>2 DEF Goto, Inv, Functions, ProcessInv, OnlyRedirectReturnsTwice
  <2>3. CASE call[p] = "do_exec" /\ Goto(p, "ended") /\ UNCHANGED ran
    BY <2>1, <2>3, MoveInv
  <2>4. CASE call[p] # "do_exec" /\ Goto(p, "user") /\ UNCHANGED ran
    BY <2>1, <2>4 DEF Goto, Inv, Functions, ProcessInv, OnlyRedirectReturnsTwice
  <2>5. QED
    BY <1>8, <2>2, <2>3, <2>4 DEF Execv, ExecvFails, Ended, Returns, Goto
<1>9. ASSUME NEW p \in Process, Reap(p) PROVE Inv'
  BY <1>9 DEF Reap, Inv, Functions, ProcessInv, OnlyRedirectReturnsTwice
<1>10. QED
  BY <1>1, <1>2, <1>3, <1>4, <1>5, <1>6, <1>7, <1>8, <1>9 DEF Next, Step

(* do_exec never comes back in its child, do_exec_redirect only with the    *)
(* output already in the file, however processes and copies call them.      *)
THEOREM OnlyRedirectComesBack == FairSpec => []OnlyRedirectReturnsTwice
<1>1. Inv => OnlyRedirectReturnsTwice
  BY DEF Inv
<1>2. QED
  BY InitInv, NextInv, <1>1, PTL DEF FairSpec

-----------------------------------------------------------------------------
(* What a parent knows of the child it has forked.                          *)

Exec == {"do_exec", "do_exec_redirect"}

Values ==
  /\ kidpid \in [Process -> Process]
  /\ status = [p \in Process |-> status[p]]
  /\ returned = [p \in Process |-> returned[p]]

(* A forked child has one parent; process numbers are not used again.       *)
OneParent ==
  /\ \A p \in Process : kidpid[p] # p => pc[kidpid[p]] # "free"
  /\ \A p, q \in Process :
       p # q /\ kidpid[p] # p /\ kidpid[q] # q => kidpid[p] # kidpid[q]

(* The child of a do_exec becomes the command or ends with 1; the child of  *)
(* a do_exec_redirect has its output in the file once it is past dup2.      *)
ChildKnown(f, k) ==
  /\ f = "do_exec" =>
       /\ pc[k] \in {"execv", "command", "ended", "reaped"}
       /\ pc[k] = "execv" => call[k] = "do_exec"
       /\ pc[k] \in {"ended", "reaped"} /\ status[k] = "0" => k \in ran
  /\ f = "do_exec_redirect" =>
       /\ pc[k] \in {"dup2", "execv"} => call[k] = "do_exec_redirect"
       /\ \/ pc[k] = "dup2"
          \/ stdout[k] = "file"
          \/ pc[k] \in {"ended", "reaped"} /\ status[k] = "signal"

Answered(p) == pc[p] = "user" /\ call[p] \in Exec /\ returned[p]

KidsInv ==
  /\ Inv
  /\ Values
  /\ OneParent
  /\ \A p \in Process :
       /\ pc[p] = "command" => p \in ran
       /\ pc[p] \in {"open", "fork", "wait"} => call[p] \in Exec
       /\ pc[p] = "system" => call[p] \notin Exec
       /\ pc[p] = "wait" \/ Answered(p) =>
            kidpid[p] # p /\ ChildKnown(call[p], kidpid[p])
       /\ pc[p] = "wait" => pc[kidpid[p]] # "reaped"
       /\ Answered(p) => pc[kidpid[p]] = "reaped" /\ status[kidpid[p]] = "0"

LEMMA InitKids == Init => KidsInv
<1> SUFFICES ASSUME Init PROVE KidsInv
  OBVIOUS
<1>1. Inv
  BY InitInv
<1> QED
  BY <1>1 DEF Init, KidsInv, Values, OneParent, Answered, Exec

(* One process moves on by itself, and what its parent knows of it stays    *)
(* true.                                                                    *)
Move(p, step) ==
  /\ pc[p] \notin {"free", "reaped"} /\ Goto(p, step)
  /\ step \notin {"free", "reaped", "wait"}
  /\ UNCHANGED kidpid /\ Values'
  /\ \A q \in Process : q # p =>
       /\ call'[q] = call[q] /\ stdout'[q] = stdout[q]
       /\ status'[q] = status[q] /\ returned'[q] = returned[q]
  /\ ran \subseteq ran'
  /\ step = "command" => p \in ran'
  /\ step \in {"open", "fork"} => call'[p] \in Exec
  /\ step = "system" => ~(call'[p] \in Exec)
  /\ ~Answered(p)'
  /\ \A f \in Exec : ChildKnown(f, p) => ChildKnown(f, p)'

LEMMA OneMoves ==
  ASSUME KidsInv, Inv', NEW p \in Process, NEW step, Move(p, step)
  PROVE  KidsInv'
<1> USE DEF Move
<1>1. pc'[p] = step /\ \A q \in Process : q # p => pc'[q] = pc[q]
  BY DEF Move, Goto, KidsInv, Inv, Functions
<1>2. OneParent'
  BY <1>1 DEF KidsInv, OneParent, Values
<1>3. ASSUME NEW q \in Process, q # p, pc[q] = "wait" \/ Answered(q)
      PROVE  ChildKnown(call[q], kidpid[q])'
  <2>1. kidpid[q] \in Process /\ ChildKnown(call[q], kidpid[q]) /\ call[q] \in Exec
    BY <1>3 DEF KidsInv, Values, Answered
  <2>2. CASE kidpid[q] = p
    BY <1>3, <2>1, <2>2
  <2>3. CASE kidpid[q] # p
    BY <1>1, <1>3, <2>1, <2>3 DEF ChildKnown
  <2> QED
    BY <2>2, <2>3
<1>4. \A q \in Process :
        /\ pc'[q] = "command" => q \in ran'
        /\ pc'[q] \in {"open", "fork", "wait"} => call'[q] \in Exec
        /\ pc'[q] = "system" => call'[q] \notin Exec
  BY <1>1 DEF KidsInv
<1>5. \A q \in Process : pc'[q] = "wait" \/ Answered(q)' =>
        /\ q # p
        /\ pc'[q] = "wait" => pc[q] = "wait"
        /\ Answered(q)' => Answered(q)
  BY <1>1 DEF Answered
<1>6. \A q \in Process : pc'[q] = "wait" \/ Answered(q)' =>
        kidpid'[q] # q /\ ChildKnown(call[q], kidpid[q])'
  BY <1>3, <1>5 DEF KidsInv
<1>7. \A q \in Process : pc'[q] = "wait" => pc'[kidpid'[q]] # "reaped"
  <2> SUFFICES ASSUME NEW q \in Process, pc'[q] = "wait"
               PROVE  pc'[kidpid'[q]] # "reaped"
    OBVIOUS
  <2>1. kidpid[q] \in Process /\ pc[kidpid[q]] # "reaped" /\ kidpid'[q] = kidpid[q]
    BY <1>5 DEF KidsInv, Values
  <2> QED
    BY <1>1, <2>1
<1>8. \A q \in Process : Answered(q)' =>
        pc'[kidpid'[q]] = "reaped" /\ status'[kidpid'[q]] = "0"
  <2> SUFFICES ASSUME NEW q \in Process, Answered(q)'
               PROVE  pc'[kidpid'[q]] = "reaped" /\ status'[kidpid'[q]] = "0"
    OBVIOUS
  <2>1. /\ kidpid[q] \in Process /\ pc[kidpid[q]] = "reaped" /\ status[kidpid[q]] = "0"
        /\ kidpid'[q] = kidpid[q]
    BY <1>5 DEF KidsInv, Values
  <2>2. kidpid[q] # p
    BY <2>1
  <2> QED
    BY <1>1, <2>1, <2>2
<1> QED
  BY <1>2, <1>4, <1>6, <1>7, <1>8 DEF KidsInv

(* A child is forked: its number was free, so it is nobody else's child.    *)
LEMMA ForkKids ==
  ASSUME KidsInv, Inv', NEW p \in Process, pc[p] = "fork",
         NEW k \in Process, pc[k] = "free",
         pc' = [pc EXCEPT ![p] = "wait",
                          ![k] = IF call[p] = "do_exec" THEN "execv" ELSE "dup2"],
         kidpid' = [kidpid EXCEPT ![p] = k],
         call' = [call EXCEPT ![k] = call[p]],
         stdout' = [stdout EXCEPT ![k] = stdout[p]],
         UNCHANGED <<status, returned, ran>>
  PROVE  KidsInv'
<1>1. /\ k # p /\ call[p] \in Exec
      /\ pc'[p] = "wait" /\ pc'[k] = IF call[p] = "do_exec" THEN "execv" ELSE "dup2"
      /\ pc'[k] \in {"execv", "dup2"}
      /\ \A q \in Process : q # p /\ q # k => pc'[q] = pc[q]
      /\ call'[k] = call[p] /\ \A q \in Process : q # k => call'[q] = call[q]
      /\ \A q \in Process : q # k => stdout'[q] = stdout[q]
      /\ kidpid'[p] = k /\ \A q \in Process : q # p => kidpid'[q] = kidpid[q]
  BY DEF KidsInv, Inv, Functions, Values
<1>2. Values'
  BY DEF KidsInv, Values
<1>3. \A q \in Process : kidpid[q] # q => kidpid[q] # k
  BY DEF KidsInv, OneParent
<1>4. \A q \in Process : kidpid[q] \in Process
  BY DEF KidsInv, Values
<1>5. OneParent'
  <2>1. ASSUME NEW q \in Process, kidpid'[q] # q
        PROVE  pc'[kidpid'[q]] # "free"
    <3>1. CASE q = p
      BY <1>1, <3>1
    <3>2. CASE q # p
      <4>1. /\ kidpid[q] # k /\ kidpid'[q] = kidpid[q] /\ pc[kidpid[q]] # "free"
            /\ kidpid[q] \in Process
        BY <1>1, <1>3, <1>4, <2>1, <3>2 DEF KidsInv, OneParent
      <4>2. CASE kidpid[q] = p
        BY <1>1, <4>1, <4>2
      <4>3. CASE kidpid[q] # p
        <5>1. pc'[kidpid[q]] = pc[kidpid[q]]
          BY <1>1, <4>1, <4>3
        <5> QED
          BY <4>1, <5>1
      <4> QED
        BY <4>2, <4>3
    <3> QED
      BY <3>1, <3>2
  <2>2. \A q, r \in Process :
          q # r /\ kidpid'[q] # q /\ kidpid'[r] # r => kidpid'[q] # kidpid'[r]
    BY <1>1, <1>3 DEF KidsInv, OneParent
  <2> QED
    BY <2>1, <2>2 DEF OneParent
<1>6. \A q \in Process :
        /\ pc'[q] = "command" => q \in ran'
        /\ pc'[q] \in {"open", "fork", "wait"} => call'[q] \in Exec
        /\ pc'[q] = "system" => call'[q] \notin Exec
  <2> SUFFICES ASSUME NEW q \in Process
               PROVE  /\ pc'[q] = "command" => q \in ran'
                      /\ pc'[q] \in {"open", "fork", "wait"} => call'[q] \in Exec
                      /\ pc'[q] = "system" => call'[q] \notin Exec
    OBVIOUS
  <2>1. CASE q = k
    BY <1>1, <2>1
  <2>2. CASE q # k
    BY <1>1, <2>2 DEF KidsInv
  <2> QED
    BY <2>1, <2>2
<1>7. ChildKnown(call[p], kidpid[p])'
  BY <1>1 DEF ChildKnown, Exec
<1>8. ASSUME NEW q \in Process, pc'[q] = "wait" \/ Answered(q)', q # p
      PROVE  /\ pc'[q] = "wait" => pc[q] = "wait" /\ pc'[kidpid'[q]] # "reaped"
             /\ Answered(q)' => pc'[kidpid'[q]] = "reaped" /\ status'[kidpid'[q]] = "0"
             /\ kidpid'[q] # q /\ ChildKnown(call[q], kidpid[q])'
  <2>1. q # k
    BY <1>1, <1>8 DEF Answered
  <2>2. /\ pc'[q] = pc[q] /\ call'[q] = call[q] /\ kidpid'[q] = kidpid[q]
        /\ pc[q] = "wait" \/ Answered(q)
    BY <1>1, <1>8, <2>1 DEF Answered
  <2>3. kidpid[q] # q /\ ChildKnown(call[q], kidpid[q]) /\ kidpid[q] # k /\ kidpid[q] \in Process
    BY <1>3, <1>4, <2>2 DEF KidsInv
  <2>4. CASE kidpid[q] = p
    <3>1. ~Answered(q)
      BY <2>4 DEF KidsInv
    <3>2. call[q] # "do_exec" /\ (call[q] = "do_exec_redirect" => stdout[p] = "file")
      BY <2>3, <2>4 DEF ChildKnown
    <3>3. stdout'[p] = stdout[p]
      BY <1>1
    <3>4. ChildKnown(call[q], kidpid[q])'
      BY <1>1, <2>2, <2>4, <3>2, <3>3 DEF ChildKnown
    <3>5. pc[q] = "wait" /\ pc'[q] = "wait" /\ ~Answered(q)'
      BY <2>2, <3>1 DEF Answered
    <3>6. pc'[kidpid'[q]] = "wait"
      BY <1>1, <2>2, <2>4
    <3> QED
      BY <2>2, <2>3, <3>4, <3>5, <3>6
  <2>5. CASE kidpid[q] # p
    <3>1. pc'[kidpid[q]] = pc[kidpid[q]] /\ call'[kidpid[q]] = call[kidpid[q]]
          /\ stdout'[kidpid[q]] = stdout[kidpid[q]]
      BY <1>1, <2>3, <2>5
    <3>2. ChildKnown(call[q], kidpid[q])'
      BY <2>2, <2>3, <3>1 DEF ChildKnown
    <3> QED
      BY <1>8, <2>2, <2>3, <3>1, <3>2 DEF KidsInv, Answered
  <2> QED
    BY <2>4, <2>5
<1>9. ASSUME NEW q \in Process
      PROVE  /\ pc'[q] = "wait" \/ Answered(q)' =>
                  kidpid'[q] # q /\ ChildKnown(call[q], kidpid[q])'
             /\ pc'[q] = "wait" => pc'[kidpid'[q]] # "reaped"
             /\ Answered(q)' => pc'[kidpid'[q]] = "reaped" /\ status'[kidpid'[q]] = "0"
  <2>1. CASE q = p
    BY <1>1, <1>7, <2>1 DEF Answered
  <2>2. CASE q # p
    BY <1>8, <2>2
  <2> QED
    BY <2>1, <2>2
<1> QED
  BY <1>2, <1>5, <1>6, <1>9 DEF KidsInv

(* waitpid answers with the status of the caller's own child.               *)
LEMMA ReapKids ==
  ASSUME KidsInv, Inv', NEW p \in Process, Reap(p)
  PROVE  KidsInv'
<1> DEFINE k == kidpid[p]
<1>1. /\ pc[p] = "wait" /\ pc[k] = "ended" /\ k \in Process /\ k # p
      /\ call[p] \in Exec /\ ChildKnown(call[p], k)
      /\ UNCHANGED <<call, kidpid, status, stdout, ran>>
  BY DEF Reap, KidsInv, Values
<1>2. /\ pc'[p] = "user" /\ pc'[k] = "reaped"
      /\ \A q \in Process : q # p /\ q # k => pc'[q] = pc[q]
      /\ returned'[p] = (status[k] = "0")
      /\ \A q \in Process : q # p => returned'[q] = returned[q]
  BY <1>1 DEF Reap, KidsInv, Inv, Functions, Values, Success
<1>3. Values'
  BY <1>1 DEF Reap, KidsInv, Values
<1>4. OneParent'
  <2>1. \A q \in Process : pc[q] # "free" => pc'[q] # "free"
    BY <1>2
  <2> QED
    BY <1>1, <2>1 DEF KidsInv, OneParent, Values
<1>5. \A q \in Process : q # p /\ kidpid[q] # q => kidpid[q] # k
  BY <1>1 DEF KidsInv, OneParent
<1>6. \A q \in Process :
        /\ pc'[q] = "command" => q \in ran'
        /\ pc'[q] \in {"open", "fork", "wait"} => call'[q] \in Exec
        /\ pc'[q] = "system" => call'[q] \notin Exec
  BY <1>1, <1>2 DEF KidsInv
<1>7. ASSUME NEW q \in Process, q # p, pc'[q] = "wait" \/ Answered(q)'
      PROVE  /\ kidpid'[q] # q /\ ChildKnown(call[q], kidpid[q])'
             /\ pc'[q] = "wait" => pc'[kidpid'[q]] # "reaped"
             /\ Answered(q)' => pc'[kidpid'[q]] = "reaped" /\ status'[kidpid'[q]] = "0"
  <2>1. /\ q # k /\ pc'[q] = pc[q]
        /\ Answered(q)' => Answered(q)
        /\ pc[q] = "wait" \/ Answered(q)
    BY <1>1, <1>2, <1>7 DEF Answered
  <2>2. /\ kidpid[q] # q /\ ChildKnown(call[q], kidpid[q]) /\ kidpid[q] \in Process
        /\ kidpid[q] # k
    BY <1>5, <1>7, <2>1 DEF KidsInv, Values
  <2>3. CASE kidpid[q] = p
    <3>1. ~Answered(q)
      BY <1>1, <2>3 DEF KidsInv
    <3>2. call[q] # "do_exec" /\ (call[q] = "do_exec_redirect" => stdout[p] = "file")
      BY <1>1, <2>2, <2>3 DEF ChildKnown
    <3>3. ChildKnown(call[q], kidpid[q])'
      BY <1>1, <1>2, <2>3, <3>2 DEF ChildKnown
    <3> QED
      BY <1>1, <1>2, <2>1, <2>2, <2>3, <3>1, <3>3
  <2>4. CASE kidpid[q] # p
    <3>1. pc'[kidpid[q]] = pc[kidpid[q]]
      BY <1>2, <2>2, <2>4
    <3>2. ChildKnown(call[q], kidpid[q])'
      BY <1>1, <2>2, <3>1 DEF ChildKnown
    <3> QED
      BY <1>1, <1>7, <2>1, <2>2, <3>1, <3>2 DEF KidsInv
  <2> QED
    BY <2>3, <2>4
<1>8. Answered(p)' => status[k] = "0"
  BY <1>2 DEF Answered
<1>9. ChildKnown(call[p], kidpid[p])'
  BY <1>1, <1>2 DEF ChildKnown
<1>10. ASSUME NEW q \in Process
       PROVE  /\ pc'[q] = "wait" \/ Answered(q)' =>
                   kidpid'[q] # q /\ ChildKnown(call[q], kidpid[q])'
              /\ pc'[q] = "wait" => pc'[kidpid'[q]] # "reaped"
              /\ Answered(q)' => pc'[kidpid'[q]] = "reaped" /\ status'[kidpid'[q]] = "0"
  <2>1. CASE q = p
    BY <1>1, <1>2, <1>8, <1>9, <2>1
  <2>2. CASE q # p
    BY <1>7, <2>2
  <2> QED
    BY <2>1, <2>2
<1> QED
  BY <1>3, <1>4, <1>6, <1>10 DEF KidsInv

LEMMA NextKids == KidsInv /\ [Next]_vars => KidsInv'
<1> SUFFICES ASSUME KidsInv, [Next]_vars PROVE KidsInv'
  OBVIOUS
<1>0. Inv'
  BY NextInv DEF KidsInv
<1>1. CASE UNCHANGED vars
  BY <1>0, <1>1 DEF vars, KidsInv, Values, OneParent, Answered, ChildKnown
<1>2. ASSUME NEW p \in Process, NEW f \in {"do_system", "do_exec", "do_exec_redirect"},
             Call(p, f)
      PROVE KidsInv'
  <2> DEFINE step == CASE f = "do_system"        -> "system"
                       [] f = "do_exec"          -> "fork"
                       [] f = "do_exec_redirect" -> "open"
  <2>1. /\ pc[p] = "user" /\ Goto(p, step)
        /\ call' = [call EXCEPT ![p] = f]
        /\ UNCHANGED <<kidpid, status, stdout, returned, ran>>
    BY <1>2 DEF Call
  <2>2. /\ step \in {"system", "fork", "open"}
        /\ step \in {"fork", "open"} => f \in Exec
        /\ step = "system" => ~(f \in Exec)
    BY DEF Exec
  <2> HIDE DEF step
  <2>3. pc'[p] = step /\ call'[p] = f /\ \A q \in Process : q # p => call'[q] = call[q]
    BY <2>1 DEF KidsInv, Inv, Functions, Values, Goto
  <2>4. Values' /\ ~Answered(p)'
    BY <2>1, <2>2, <2>3 DEF KidsInv, Values, Answered
  <2>5. \A g \in Exec : ChildKnown(g, p) => ChildKnown(g, p)'
    BY <2>1, <2>2, <2>3 DEF ChildKnown, Exec
  <2> QED
    BY <1>0, <2>1, <2>2, <2>3, <2>4, <2>5, OneMoves DEF Move
<1>3. ASSUME NEW p \in Process, System(p) PROVE KidsInv'
  <2>1. PICK b \in BOOLEAN : Returns(p, b)
    BY <1>3 DEF System
  <2>2. /\ pc[p] = "system" /\ Goto(p, "user")
        /\ returned' = [returned EXCEPT ![p] = b]
        /\ UNCHANGED <<call, kidpid, status, stdout, ran>>
    BY <1>3, <2>1 DEF System, Returns
  <2>3. pc'[p] = "user" /\ \A q \in Process : q # p => returned'[q] = returned[q]
    BY <2>2 DEF KidsInv, Inv, Functions, Values, Goto
  <2>4. Values' /\ ~Answered(p)'
    BY <2>2 DEF KidsInv, Values, Answered
  <2>5. \A g \in Exec : ChildKnown(g, p) => ChildKnown(g, p)'
    BY <2>2, <2>3 DEF ChildKnown
  <2> QED
    BY <1>0, <2>2, <2>3, <2>4, <2>5, OneMoves DEF Move
(* The calls that fail, in the parent or in a child that did not become the *)
(* command.                                                                 *)
<1>4. ASSUME NEW p \in Process, Returns(p, FALSE),
             UNCHANGED <<call, kidpid, status, stdout, ran>>,
             \/ pc[p] = "fork"
             \/ pc[p] = "wait"
             \/ pc[p] = "execv" /\ call[p] # "do_exec"
      PROVE KidsInv'
  <2>1. /\ Goto(p, "user")
        /\ returned' = [returned EXCEPT ![p] = FALSE]
    BY <1>4 DEF Returns
  <2>2. /\ pc'[p] = "user" /\ returned'[p] = FALSE
        /\ \A q \in Process : q # p => returned'[q] = returned[q]
    BY <2>1 DEF KidsInv, Inv, Functions, Values, Goto
  <2>3. Values' /\ ~Answered(p)'
    BY <1>4, <2>1, <2>2 DEF KidsInv, Values, Answered
  <2>4. \A g \in Exec : ChildKnown(g, p) => ChildKnown(g, p)'
    BY <1>4, <2>2 DEF ChildKnown
  <2> QED
    BY <1>0, <1>4, <2>1, <2>2, <2>3, <2>4, OneMoves DEF Move
(* A process ends, with 0 only after the command or as a copy of the        *)
(* program.                                                                 *)
<1>5. ASSUME NEW p \in Process, NEW how, Ended(p, how),
             \/ pc[p] \in {"user", "open", "command"}
             \/ pc[p] = "dup2" /\ how = "signal"
             \/ pc[p] = "execv" /\ call[p] = "do_exec" /\ how = "1",
             UNCHANGED <<call, kidpid, returned, stdout, ran>>
      PROVE KidsInv'
  <2>1. Goto(p, "ended") /\ status' = [status EXCEPT ![p] = how]
    BY <1>5 DEF Ended, Goto
  <2>2. /\ pc'[p] = "ended" /\ status'[p] = how
        /\ \A q \in Process : q # p => status'[q] = status[q]
    BY <2>1 DEF KidsInv, Inv, Functions, Values, Goto
  <2>3. Values' /\ ~Answered(p)'
    BY <1>5, <2>1, <2>2 DEF KidsInv, Values, Answered
  <2>4. \A g \in Exec : ChildKnown(g, p) => ChildKnown(g, p)'
    <3>1. UNCHANGED <<call, stdout, ran>>
      BY <1>5
    <3>2. CASE pc[p] \in {"user", "open"}
      BY <2>2, <3>1, <3>2 DEF ChildKnown
    <3>3. CASE pc[p] = "command"
      <4>1. p \in ran
        BY <3>3 DEF KidsInv
      <4> QED
        BY <2>2, <3>1, <3>3, <4>1 DEF ChildKnown
    <3>4. CASE pc[p] = "dup2" /\ how = "signal"
      BY <2>2, <3>1, <3>4 DEF ChildKnown
    <3>5. CASE pc[p] = "execv" /\ call[p] = "do_exec" /\ how = "1"
      BY <2>2, <3>1, <3>5 DEF ChildKnown
    <3> QED
      BY <1>5, <3>2, <3>3, <3>4, <3>5
  <2> QED
    BY <1>0, <1>5, <2>1, <2>2, <2>3, <2>4, OneMoves DEF Move
<1>6. ASSUME NEW p \in Process, Open(p) PROVE KidsInv'
  <2>1. pc[p] = "open" /\ UNCHANGED <<call, kidpid, stdout, returned, ran>>
    BY <1>6 DEF Open
  <2>2. CASE Ended(p, "signal")
    BY <1>5, <2>1, <2>2
  <2>3. CASE Goto(p, "fork") /\ UNCHANGED status
    <3>1. pc'[p] = "fork"
      BY <2>3 DEF KidsInv, Inv, Functions, Values, Goto
    <3>2. Values' /\ ~Answered(p)'
      BY <2>1, <2>3, <3>1 DEF KidsInv, Values, Answered
    <3>3. \A g \in Exec : ChildKnown(g, p) => ChildKnown(g, p)'
      BY <2>1, <2>3, <3>1 DEF ChildKnown
    <3>4. call[p] \in Exec
      BY <2>1 DEF KidsInv
    <3> QED
      BY <1>0, <2>1, <2>3, <3>1, <3>2, <3>3, <3>4, OneMoves DEF Move
  <2> QED
    BY <1>6, <2>2, <2>3 DEF Open
<1>7. ASSUME NEW p \in Process, Fork(p) PROVE KidsInv'
  <2>1. pc[p] = "fork" /\ UNCHANGED <<status, ran>>
    BY <1>7 DEF Fork
  <2>2. CASE Returns(p, FALSE) /\ UNCHANGED <<call, kidpid, stdout, fds>>
    <3>1. Returns(p, FALSE) /\ UNCHANGED <<call, kidpid, status, stdout, ran>>
      BY <2>1, <2>2
    <3> QED
      BY <1>4, <2>1, <3>1
  <2>3. CASE ~(Returns(p, FALSE) /\ UNCHANGED <<call, kidpid, stdout, fds>>)
    <3>1. PICK k \in Process :
            /\ pc[k] = "free"
            /\ pc' = [pc EXCEPT ![p] = "wait",
                                ![k] = IF call[p] = "do_exec" THEN "execv" ELSE "dup2"]
            /\ kidpid' = [kidpid EXCEPT ![p] = k]
            /\ call' = [call EXCEPT ![k] = call[p]]
            /\ stdout' = [stdout EXCEPT ![k] = stdout[p]]
            /\ UNCHANGED returned
      BY <1>7, <2>3 DEF Fork
    <3> QED
      BY <1>0, <2>1, <3>1, ForkKids
  <2> QED
    BY <2>2, <2>3
<1>8. ASSUME NEW p \in Process, Dup2(p) PROVE KidsInv'
  <2>1. pc[p] = "dup2" /\ UNCHANGED <<call, kidpid, returned, ran>>
    BY <1>8 DEF Dup2
  <2>2. CASE Ended(p, "signal") /\ UNCHANGED stdout
    BY <1>5, <2>1, <2>2
  <2>3. CASE stdout' = [stdout EXCEPT ![p] = "file"] /\ Goto(p, "execv") /\ UNCHANGED status
    <3>1. /\ pc'[p] = "execv" /\ stdout'[p] = "file"
          /\ \A q \in Process : q # p => stdout'[q] = stdout[q]
      BY <2>3 DEF KidsInv, Inv, Functions, Values, Goto
    <3>2. Values' /\ ~Answered(p)'
      BY <2>1, <2>3, <3>1 DEF KidsInv, Values, Answered
    <3>3. \A g \in Exec : ChildKnown(g, p) => ChildKnown(g, p)'
      BY <2>1, <2>3, <3>1 DEF ChildKnown
    <3> QED
      BY <1>0, <2>1, <2>3, <3>1, <3>2, <3>3, OneMoves DEF Move
  <2> QED
    BY <1>8, <2>2, <2>3 DEF Dup2
<1>9. ASSUME NEW p \in Process, Execv(p) PROVE KidsInv'
  <2>1. pc[p] = "execv" /\ UNCHANGED <<call, kidpid, stdout>>
    BY <1>9 DEF Execv
  <2>2. CASE Goto(p, "command") /\ ran' = ran \cup {p} /\ UNCHANGED <<status, returned>>
    <3>1. pc'[p] = "command"
      BY <2>2 DEF KidsInv, Inv, Functions, Values, Goto
    <3>2. Values' /\ ~Answered(p)'
      BY <2>1, <2>2, <3>1 DEF KidsInv, Values, Answered
    <3>3. \A g \in Exec : ChildKnown(g, p) => ChildKnown(g, p)'
      BY <2>1, <2>2, <3>1 DEF ChildKnown
    <3> QED
      BY <1>0, <2>1, <2>2, <3>1, <3>2, <3>3, OneMoves DEF Move
  <2>3. CASE ExecvFails(p) /\ UNCHANGED ran
    <3>1. CASE call[p] = "do_exec"
      <4>1. Ended(p, "1") /\ UNCHANGED returned
        BY <2>3, <3>1 DEF ExecvFails
      <4> QED
        BY <1>5, <2>1, <2>3, <3>1, <4>1
    <3>2. CASE call[p] # "do_exec"
      <4>1. Returns(p, FALSE) /\ UNCHANGED status
        BY <2>3, <3>2 DEF ExecvFails
      <4> QED
        BY <1>4, <2>1, <2>3, <3>2, <4>1
    <3> QED
      BY <3>1, <3>2
  <2> QED
    BY <1>9, <2>2, <2>3 DEF Execv
<1>10. ASSUME NEW p \in Process, WaitpidFails(p) PROVE KidsInv'
  <2>1. Returns(p, FALSE) /\ UNCHANGED <<call, kidpid, status, stdout, ran>>
    BY <1>10 DEF WaitpidFails
  <2>2. pc[p] = "wait"
    BY <1>10 DEF WaitpidFails
  <2> QED
    BY <1>4, <2>1, <2>2
<1>11. ASSUME NEW p \in Process, Exit(p) \/ Command(p) PROVE KidsInv'
  <2>1. pc[p] \in {"user", "command"} /\ UNCHANGED <<call, kidpid, stdout, returned, ran>>
    BY <1>11 DEF Exit, Command
  <2>2. \E how : Ended(p, how)
    BY <1>11 DEF Exit, Command
  <2> QED
    BY <1>5, <2>1, <2>2
<1> QED
  BY <1>0, <1>1, <1>2, <1>3, <1>6, <1>7, <1>8, <1>9, <1>10, <1>11, ReapKids DEF Next, Step

THEOREM KidsInvariant == FairSpec => []KidsInv
  BY InitKids, NextKids, PTL DEF FairSpec

(* A TRUE of do_exec is about the caller's own child: it became the         *)
(* command, ended with 0 and was waited for.                                *)
THEOREM TrueTellsSuccess == FairSpec => []TrueMeansSuccess
<1>1. KidsInv => TrueMeansSuccess
  <2> SUFFICES ASSUME KidsInv, NEW p \in Process,
                      pc[p] = "user", call[p] = "do_exec", returned[p]
               PROVE  LET k == kidpid[p]
                      IN  k # p /\ k \in ran /\ pc[k] = "reaped" /\ status[k] = "0"
    BY DEF TrueMeansSuccess, AnswersForItsCommand
  <2>1. Answered(p)
    BY DEF Answered, Exec
  <2>2. /\ kidpid[p] # p /\ ChildKnown(call[p], kidpid[p])
        /\ pc[kidpid[p]] = "reaped" /\ status[kidpid[p]] = "0"
    BY <2>1 DEF KidsInv
  <2> QED
    BY <2>2 DEF ChildKnown, Exec
<1> QED
  BY <1>1, KidsInvariant, PTL

=============================================================================
