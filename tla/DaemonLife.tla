------------------------------- MODULE DaemonLife -----------------------------
(***************************************************************************)
(* Starting and stopping g15daemon: processes started at the same time,    *)
(* the pid file, the keyboard that libg15 attaches one process to, and the *)
(* signals.  A process is started once and its pid is not given again.     *)
(***************************************************************************)
EXTENDS Integers, FiniteSets

CONSTANTS Proc, NULL

VARIABLES pc,         \* of each process
          pidfile,    \* which process created it, and whether it wrote its pid
          attached,   \* the process that has the keyboard
          told,       \* a signal was sent to it
          leaving

dlvars == <<pc, pidfile, attached, told, leaving>>

Alive(p) == pc[p] \notin {"none", "dead"}
Go(p, l) == pc' = [pc EXCEPT ![p] = l]
Free(p) == attached' = IF attached = p THEN NULL ELSE attached
Exit(p) == Go(p, "dead") /\ Free(p)
After(l) == IF l = "check" THEN "attach" ELSE "create"

Start(p) ==
  /\ pc[p] = "none" /\ Go(p, "check")
  /\ UNCHANGED <<pidfile, attached, told, leaving>>

-----------------------------------------------------------------------------
(* uf_return_running, called by main and again by uf_create_pidfile: there   *)
(* is no file; or it names a process that is alive; or it is removed, because *)
(* the process died or its pid is not in it yet.  In that last case what is  *)
(* taken for the pid was never read, and may also be that of a live process. *)
Found(p, l) == Go(p, l) /\ UNCHANGED attached
Missing(p) == pidfile = NULL /\ Found(p, After(pc[p]))
Taken(p) ==
  /\ pidfile # NULL /\ (pidfile.written => Alive(pidfile.by))
  /\ IF pc[p] = "check" THEN Exit(p) ELSE Found(p, "create")
Stale(p) ==
  /\ pidfile # NULL /\ ~(pidfile.written /\ Alive(pidfile.by))
  /\ Found(p, IF pc[p] = "check" THEN "remove" ELSE "remove again")
Read(p) ==
  /\ pc[p] \in {"check", "check again"}
  /\ Missing(p) \/ Taken(p) \/ Stale(p)
  /\ UNCHANGED <<pidfile, told, leaving>>

(* With a bug: the file of a process that died stays. *)
RemoveNot(p) ==
  /\ pc[p] \in {"remove", "remove again"}
  /\ Go(p, IF pc[p] = "remove" THEN "attach" ELSE "create")
  /\ UNCHANGED <<pidfile, attached, told, leaving>>
Remove(p) ==
  /\ pc[p] \in {"remove", "remove again"}
  /\ pidfile' = NULL
  /\ Go(p, IF pc[p] = "remove" THEN "attach" ELSE "create")
  /\ UNCHANGED <<attached, told, leaving>>

(* initLibG15 finds the keyboard taken, or takes it. *)
Attach(p) ==
  /\ pc[p] = "attach"
  /\ IF attached # NULL THEN Exit(p)
     ELSE attached' = p /\ Go(p, "check again")
  /\ UNCHANGED <<pidfile, told, leaving>>

(* uf_create_pidfile, with O_EXCL, and then its pid: lost if the file was    *)
(* removed by then.                                                          *)
Create(p) ==
  /\ pc[p] = "create"
  /\ IF pidfile # NULL THEN Exit(p) /\ UNCHANGED pidfile
     ELSE /\ pidfile' = [by |-> p, written |-> FALSE]
          /\ Go(p, "write") /\ UNCHANGED attached
  /\ UNCHANGED <<told, leaving>>
WritePid(p) ==
  /\ pc[p] = "write" /\ Go(p, "boot")
  /\ pidfile' = IF pidfile = [by |-> p, written |-> FALSE]
                THEN [pidfile EXCEPT !.written = TRUE] ELSE pidfile
  /\ UNCHANGED <<attached, told, leaving>>

-----------------------------------------------------------------------------
(* The threads and plugins are started, the handlers installed; then pause. *)
Boot(p) ==
  /\ pc[p] \in {"boot", "armed"}
  /\ Go(p, IF pc[p] = "boot" THEN "armed" ELSE "pause")
  /\ UNCHANGED <<pidfile, attached, told, leaving>>

(* A signal ends a process without handlers; g15daemon_sighandler sets       *)
(* leaving, which is looked at when pause returns.  SIGKILL always ends it.  *)
Signal(p) ==
  /\ Alive(p) /\ ~told[p] /\ told' = [told EXCEPT ![p] = TRUE]
  /\ UNCHANGED <<pc, pidfile, attached, leaving>>
Die(p) ==
  /\ Alive(p) /\ told[p] /\ Exit(p)
  /\ UNCHANGED <<pidfile, told, leaving>>
Handle(p) ==
  /\ told[p] /\ ~leaving[p] /\ pc[p] \in {"armed", "pause"}
  /\ leaving' = [leaving EXCEPT ![p] = TRUE]
  /\ pc' = [pc EXCEPT ![p] = IF @ = "pause" THEN "leave" ELSE @]
  /\ UNCHANGED <<pidfile, attached, told>>

(* exitLibG15, then unlink, whoever the file is of. *)
Leave(p) ==
  /\ pc[p] = "leave" /\ Go(p, "unlink") /\ Free(p)
  /\ UNCHANGED <<pidfile, told, leaving>>
Unlink(p) ==
  /\ pc[p] = "unlink" /\ Exit(p) /\ pidfile' = NULL
  /\ UNCHANGED <<told, leaving>>

-----------------------------------------------------------------------------
Init ==
  /\ pc = [p \in Proc |-> "none"] 
  /\ pidfile = NULL /\ attached = NULL
  /\ told = [p \in Proc |-> FALSE] /\ leaving = [p \in Proc |-> FALSE]

Step(p) ==
  Read(p) \/ Remove(p) \/ Attach(p) \/ Create(p) \/ WritePid(p) \/ Boot(p)
          \/ Handle(p) \/ Leave(p) \/ Unlink(p)
Next == \E p \in Proc : Start(p) \/ Step(p) \/ Signal(p) \/ Die(p)

Spec == Init /\ [][Next]_dlvars /\ \A p \in Proc : WF_dlvars(Step(p))

-----------------------------------------------------------------------------
(* After a start, a daemon runs, whatever pid file a killed one left and     *)
(* however many start together: unless one of them is being stopped, or one  *)
(* that was killed left a pid file without a pid (uf_return_running).        *)
HalfWritten == pidfile # NULL /\ ~pidfile.written /\ pc[pidfile.by] = "dead"
StartedRuns ==
  \A p \in Proc : pc[p] = "check" ~>
    (HalfWritten \/ \E q \in Proc : pc[q] = "pause" \/ (told[q] /\ Alive(q)))

(* A daemon that is up can be found by its pid file (g15daemon -k). *)
PidFileNamesDaemon ==
  \A p \in Proc : pc[p] = "pause" => pidfile = [by |-> p, written |-> TRUE]
=============================================================================
