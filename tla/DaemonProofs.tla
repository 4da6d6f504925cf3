---------------------------- MODULE DaemonProofs ----------------------------
(***************************************************************************)
(* Theorems about the daemon process, for any number of processes and      *)
(* configuration files, and about the desktop app that drives it.          *)
(***************************************************************************)
EXTENDS DaemonControl, TLAPS

----------------------------------------------------------------------------
(* The shape of the state.                                                 *)

USE DEF daemonVars

LEMMA InitTyped == DaemonInit => DaemonTypeOK
  BY DaemonAssumption DEF DaemonInit, DaemonTypeOK, Stages, Starting, Ending, Replies, Requests

\* The record of a process.
Process == [stage : Stages, config : Configs, open : BOOLEAN, queue : SUBSET Requests, reply : Replies]

\* What a process does, what befalls it and what is sent to it.
Moves(d) == DaemonStep(d) \/ Mishap(d) \/ Request(d) \/ Forsake(d)

LEMMA MoveFields ==
    ASSUME DaemonTypeOK, NEW d \in Daemons, NEW stage \in Stages, Move(d, stage)
    PROVE  /\ daemon' \in [Daemons -> Process]
           /\ daemon'[d] = [daemon[d] EXCEPT !.stage = stage]
           /\ daemon'[d].stage = stage /\ daemon'[d].reply = daemon[d].reply
           /\ \A e \in Daemons \ {d} : daemon'[e] = daemon[e]
<1> DEFINE p == [daemon[d] EXCEPT !.stage = stage]
<1>1. daemon \in [Daemons -> Process] /\ daemon[d] \in Process
  BY DEF DaemonTypeOK, Process
<1>2. p \in Process /\ p.stage = stage /\ p.reply = daemon[d].reply
  BY <1>1 DEF Process
<1>3. daemon' = [daemon EXCEPT ![d] = p]
  BY <1>1 DEF Move
<1> HIDE DEF p
<1>4. daemon' \in [Daemons -> Process] /\ daemon'[d] = p /\ \A e \in Daemons \ {d} : daemon'[e] = daemon[e]
  BY <1>1, <1>2, <1>3
<1> QED BY <1>2, <1>4 DEF p

LEMMA LeaveFields ==
    ASSUME DaemonTypeOK, NEW d \in Daemons, NEW stage \in Stages, NEW reply \in Replies,
           Leave(d, stage, reply)
    PROVE  /\ daemon' \in [Daemons -> Process]
           /\ daemon'[d].stage = stage /\ daemon'[d].reply = reply
           /\ \A e \in Daemons \ {d} : daemon'[e] = daemon[e]
<1> DEFINE p == [stage |-> stage, config |-> daemon[d].config, open |-> FALSE, queue |-> {}, reply |-> reply]
<1>1. daemon \in [Daemons -> Process] /\ daemon[d] \in Process
  BY DEF DaemonTypeOK, Process
<1>2. p \in Process /\ p.stage = stage /\ p.reply = reply
  BY <1>1 DEF Process
<1>3. daemon' = [daemon EXCEPT ![d] = p]
  BY DEF Leave
<1> HIDE DEF p
<1> QED BY <1>1, <1>2, <1>3

\* The actions as they appear in the proofs: every step is one of these.
\* What the control channel does to a process.
LEMMA AskedFields ==
    ASSUME DaemonTypeOK, NEW d \in Daemons, TakeStop(d) \/ Request(d) \/ Forsake(d)
    PROVE  /\ daemon' \in [Daemons -> Process]
           /\ \A e \in Daemons \ {d} : daemon'[e] = daemon[e]
           /\ daemon'[d].config = daemon[d].config /\ daemon'[d].open = daemon[d].open
           /\ daemon'[d].stage = IF TakeStop(d) THEN "stopping" ELSE daemon[d].stage
           /\ daemon'[d].reply \in {daemon[d].reply, "none"} \/ TakeStop(d)
           /\ TakeStop(d) => daemon[d].stage = "serving" /\ daemon'[d].reply \in {"none", "asked"}
           /\ UNCHANGED <<holder, endpoint, usable, taken>>
<1> DEFINE Goal == /\ daemon' \in [Daemons -> Process]
                   /\ \A e \in Daemons \ {d} : daemon'[e] = daemon[e]
                   /\ daemon'[d].config = daemon[d].config /\ daemon'[d].open = daemon[d].open
<1>0. daemon \in [Daemons -> Process] /\ daemon[d] \in Process /\ daemon[d].reply \in Replies
  BY DEF DaemonTypeOK, Process
<1>1. ASSUME TakeStop(d)
      PROVE  /\ Goal /\ daemon'[d].stage = "stopping" /\ daemon'[d].reply \in {"none", "asked"}
             /\ daemon[d].stage = "serving"
  <2> DEFINE first == IF "given up" \in daemon[d].queue THEN "given up" ELSE "awaited"
             rest  == daemon[d].queue \ {first}
             reply == IF first = "awaited" THEN "asked" ELSE "none"
             p     == [daemon[d] EXCEPT !.stage = "stopping", !.queue = rest, !.reply = reply]
  <2>1. rest \in SUBSET Requests /\ reply \in Replies /\ reply \in {"none", "asked"}
    BY <1>0 DEF Process, Replies
  <2>2. daemon' = [daemon EXCEPT ![d] = p]
    BY <1>0, <1>1 DEF TakeStop
  <2> HIDE DEF rest, reply
  <2>3. /\ p \in Process /\ p.stage = "stopping" /\ p.reply = reply
        /\ p.config = daemon[d].config /\ p.open = daemon[d].open
    BY <1>0, <2>1 DEF Process, Stages, Ending
  <2>4. daemon[d].stage = "serving"
    BY <1>1 DEF TakeStop, At
  <2> HIDE DEF p
  <2> QED BY <1>0, <2>1, <2>2, <2>3, <2>4
<1>2. ASSUME Request(d)
      PROVE  Goal /\ daemon'[d].stage = daemon[d].stage /\ daemon'[d].reply = daemon[d].reply
  <2> DEFINE sent == daemon[d].queue \cup {"awaited"}
             p    == [daemon[d] EXCEPT !.queue = sent]
  <2>1. sent \in SUBSET Requests
    BY <1>0 DEF Process, Requests
  <2>2. daemon' = [daemon EXCEPT ![d] = p]
    BY <1>0, <1>2 DEF Request
  <2> HIDE DEF sent
  <2>3. /\ p \in Process /\ p.stage = daemon[d].stage /\ p.reply = daemon[d].reply
        /\ p.config = daemon[d].config /\ p.open = daemon[d].open
    BY <1>0, <2>1 DEF Process
  <2> HIDE DEF p
  <2> QED BY <1>0, <2>2, <2>3
<1>3. ASSUME Forsake(d)
      PROVE  /\ Goal /\ daemon'[d].stage = daemon[d].stage
             /\ daemon'[d].reply \in {daemon[d].reply, "none"}
  <2> DEFINE left  == IF "awaited" \in daemon[d].queue THEN {"given up"} ELSE daemon[d].queue
             reply == IF daemon[d].reply \in {"asked", "timeout"} THEN "none" ELSE daemon[d].reply
             p     == [daemon[d] EXCEPT !.queue = left, !.reply = reply]
  <2>1. left \in SUBSET Requests /\ reply \in Replies
    BY <1>0 DEF Process, Requests, Replies
  <2>2. daemon' = [daemon EXCEPT ![d] = p]
    BY <1>0, <1>3 DEF Forsake
  <2>4. reply \in {daemon[d].reply, "none"}
    OBVIOUS
  <2> HIDE DEF left, reply
  <2>3. /\ p \in Process /\ p.stage = daemon[d].stage /\ p.reply = reply
        /\ p.config = daemon[d].config /\ p.open = daemon[d].open
    BY <1>0, <2>1 DEF Process
  <2> HIDE DEF p
  <2> QED BY <1>0, <2>2, <2>3, <2>4
<1>4. UNCHANGED <<holder, endpoint, usable, taken>>
  BY DEF TakeStop, Request, Forsake
<1> QED BY <1>1, <1>2, <1>3, <1>4

LEMMA StepTyped ==
    ASSUME DaemonTypeOK, NEW d \in Daemons, Moves(d)
    PROVE  DaemonTypeOK'
<1> DEFINE Kept == /\ daemon' \in [Daemons -> Process]
                   /\ \A e \in Daemons : daemon'[e].reply = "none" \/ daemon'[e].stage \in Ending \cup {"gone"}
<1>0. /\ daemon \in [Daemons -> Process] /\ holder \in Daemons \cup {NoOne}
      /\ endpoint \in Daemons \cup {NoOne} /\ usable \subseteq Configs /\ taken \subseteq Configs
      /\ \A e \in Daemons : daemon[e].reply = "none" \/ daemon[e].stage \in Ending \cup {"gone"}
  BY DEF DaemonTypeOK, Process
<1>00. daemon[d] \in Process /\ daemon[d].reply \in Replies
  BY <1>0 DEF Process
<1> USE DEF At, Stages, Starting, Ending, Replies
<1>1. ASSUME Lock(d) \/ ReadConfig(d) \/ Publish(d) \/ Unlist(d) \/ Unlock(d) \/ StartupFails(d) \/ Signal(d) PROVE Kept
  <2>1. PICK stage \in Stages : Move(d, stage) /\ (daemon[d].reply # "none" => stage \in Ending \cup {"gone"})
    BY <1>0, <1>1 DEF Lock, ReadConfig, Publish, Unlist, Unlock, StartupFails, Signal
  <2> QED BY ZenonT(60), <1>0, <2>1, MoveFields
<1>2. ASSUME Drain(d) \/ Acknowledge(d) \/ ServerEnds(d) \/ Crash(d) PROVE Kept
  <2>1. PICK stage \in {"released", "gone"}, reply \in Replies : Leave(d, stage, reply)
    BY <1>00, <1>2 DEF Drain, Acknowledge, ServerEnds, Crash
  <2> QED BY <1>0, <2>1, LeaveFields
<1>3. ASSUME Bind(d) PROVE Kept
  <2>1. CASE Move(d, "released")
    BY ZenonT(60), <1>0, <2>1, MoveFields
  <2>2. CASE daemon' = [daemon EXCEPT ![d].stage = "bound", ![d].open = TRUE]
    <3> DEFINE p == [daemon[d] EXCEPT !.stage = "bound", !.open = TRUE]
    <3>1. p \in Process /\ p.reply = daemon[d].reply /\ p.stage = "bound"
      BY <1>00 DEF Process
    <3>2. daemon' = [daemon EXCEPT ![d] = p]
      BY <1>0, <2>2
    <3>3. daemon[d].reply = "none"
      BY <1>0, <1>3 DEF Bind
    <3> HIDE DEF p
    <3> QED BY <1>0, <3>1, <3>2, <3>3
  <2> QED BY <1>3, <2>1, <2>2 DEF Bind
<1>4. ASSUME TakeStop(d) \/ Request(d) \/ Forsake(d) PROVE Kept
  BY <1>0, <1>4, AskedFields
<1>7. Kept
  BY <1>1, <1>2, <1>3, <1>4 DEF Moves, DaemonStep, Mishap
<1>8. /\ holder' \in Daemons \cup {NoOne} /\ endpoint' \in Daemons \cup {NoOne}
      /\ usable' \subseteq Configs /\ taken' \subseteq Configs
  BY <1>0 DEF Moves, DaemonStep, Mishap, Lock, ReadConfig, Bind, Publish, Drain, Unlist, Unlock, Acknowledge,
              TakeStop, StartupFails, Signal, ServerEnds, Crash, Request, Forsake
<1> QED BY <1>7, <1>8 DEF DaemonTypeOK, Process

LEMMA ForkTyped ==
    ASSUME DaemonTypeOK, NEW d \in Daemons, NEW c \in Configs, Fork(d, c)
    PROVE  DaemonTypeOK'
  BY DEF DaemonTypeOK, Stages, Starting, Ending, Replies, Requests, At, Fork

LEMMA EnvironmentTyped ==
    ASSUME DaemonTypeOK, Environment
    PROVE  DaemonTypeOK'
  BY DaemonAssumption DEF DaemonTypeOK, Environment, EditConfig, TakePort

LEMMA NextTyped == DaemonTypeOK /\ [DaemonNext]_daemonVars => DaemonTypeOK'
<1> SUFFICES ASSUME DaemonTypeOK, [DaemonNext]_daemonVars PROVE DaemonTypeOK'
  OBVIOUS
<1>1. CASE UNCHANGED daemonVars
  BY <1>1 DEF DaemonTypeOK
<1>2. CASE DaemonNext
  BY <1>2, StepTyped, ForkTyped, EnvironmentTyped DEF DaemonNext, Moves
<1> QED BY <1>1, <1>2

\* The typing of the daemon's state: the type invariant.
THEOREM DaemonTyped == DaemonSpec => []DaemonTypeOK
  BY InitTyped, NextTyped, PTL DEF DaemonSpec

----------------------------------------------------------------------------
(* The lock.  LockDiscipline alone is inductive, given the types: a stage  *)
(* is entered with the lock, left without it, or neither, and a process    *)
(* that ends releases only its own.                                        *)

LEMMA StepKeepsLock ==
    ASSUME DaemonTypeOK, LockDiscipline,
           NEW d \in Daemons, Moves(d)
    PROVE  LockDiscipline'
<1> USE DaemonAssumption DEF DaemonTypeOK, LockDiscipline, Registered, At, Move, Leave
<1>1. CASE Lock(d)         BY <1>1 DEF Lock
<1>2. CASE ReadConfig(d)   BY <1>2 DEF ReadConfig
<1>3. CASE Bind(d)         BY <1>3 DEF Bind
<1>4. CASE Publish(d)      BY <1>4 DEF Publish
<1>5. CASE Drain(d)        BY <1>5 DEF Drain
<1>6. CASE Unlist(d)       BY <1>6 DEF Unlist
<1>7. CASE Unlock(d)       BY <1>7 DEF Unlock
<1>8. CASE Acknowledge(d)  BY <1>8 DEF Acknowledge
<1>9. CASE StartupFails(d) BY <1>9 DEF StartupFails
<1>10. CASE Signal(d)      BY <1>10 DEF Signal
<1>11. CASE ServerEnds(d)  BY <1>11 DEF ServerEnds
<1>12. CASE Crash(d)       BY <1>12 DEF Crash
<1>13. CASE TakeStop(d) \/ Request(d) \/ Forsake(d)
  BY <1>13, AskedFields
<1> QED
  BY <1>1, <1>2, <1>3, <1>4, <1>5, <1>6, <1>7, <1>8, <1>9, <1>10, <1>11, <1>12, <1>13
     DEF Moves, DaemonStep, Mishap

LEMMA NextKeepsLock ==
    DaemonTypeOK /\ LockDiscipline /\ [DaemonNext]_daemonVars => LockDiscipline'
<1> SUFFICES ASSUME DaemonTypeOK, LockDiscipline, [DaemonNext]_daemonVars PROVE LockDiscipline'
  OBVIOUS
<1>1. CASE UNCHANGED daemonVars
  BY <1>1 DEF LockDiscipline, Registered
<1>2. CASE \E d \in Daemons, c \in Configs : Fork(d, c)
  BY <1>2 DEF DaemonTypeOK, LockDiscipline, Registered, At, Fork
<1>3. CASE Environment
  BY <1>3 DEF LockDiscipline, Registered, Environment, EditConfig, TakePort
<1>4. CASE \E d \in Daemons : Moves(d)
  BY <1>4, StepKeepsLock
<1> QED BY <1>1, <1>2, <1>3, <1>4 DEF DaemonNext, Moves

LEMMA InitLock == DaemonInit => LockDiscipline
  BY DaemonAssumption DEF DaemonInit, LockDiscipline, Registered

\* The owner of the Registration is the holder of daemon.lock, however many
\* processes start, end and die at the same time.
THEOREM LockHeld == DaemonSpec => []LockDiscipline
  BY InitLock, NextKeepsLock, DaemonTyped, PTL DEF DaemonSpec

\* At most one registered process listens.
THEOREM AtMostOneListens == DaemonSpec => []OneListener
<1>1. LockDiscipline => OneListener
  BY DEF LockDiscipline, OneListener
<1> QED BY <1>1, LockHeld, PTL

----------------------------------------------------------------------------
(* The discovery file.  Only a registered process writes or removes it, so *)
(* nobody but the daemon that serves can change the name of the daemon     *)
(* that serves.                                                            *)

LEMMA NextKeepsListed ==
    DaemonTypeOK /\ LockDiscipline /\ ListedWhileServing /\ [DaemonNext]_daemonVars
        => ListedWhileServing'
<1> SUFFICES ASSUME DaemonTypeOK, LockDiscipline, ListedWhileServing,
                    [DaemonNext]_daemonVars
             PROVE  ListedWhileServing'
  OBVIOUS
<1> USE DEF ListedWhileServing, At
<1>1. CASE UNCHANGED daemonVars
  BY <1>1
<1>2. CASE \E d \in Daemons, c \in Configs : Fork(d, c)
  BY <1>2 DEF DaemonTypeOK, Fork
<1>3. CASE Environment
  BY <1>3 DEF Environment, EditConfig, TakePort
<1>4. ASSUME NEW d \in Daemons, Publish(d) PROVE ListedWhileServing'
  <2>1. \A e \in Daemons : At(e, "serving") => e = d
    BY <1>4, DaemonAssumption DEF Publish, LockDiscipline, Registered
  <2> QED BY <1>4, <2>1 DEF Publish, Move, DaemonTypeOK
<1>5. ASSUME NEW d \in Daemons, Unlist(d) PROVE ListedWhileServing'
  <2>1. \A e \in Daemons : ~At(e, "serving")
    BY <1>5, DaemonAssumption DEF Unlist, LockDiscipline, Registered
  <2> QED BY <1>5, <2>1 DEF Unlist, Move, DaemonTypeOK
<1>7. ASSUME NEW d \in Daemons, TakeStop(d) \/ Request(d) \/ Forsake(d)
      PROVE  ListedWhileServing'
  BY <1>7, AskedFields
<1>6. ASSUME NEW d \in Daemons,
             \/ Lock(d) \/ ReadConfig(d) \/ Bind(d) \/ Drain(d) \/ Unlock(d)
             \/ Acknowledge(d) \/ Mishap(d)
      PROVE  ListedWhileServing'
  <2>1. UNCHANGED endpoint
    BY <1>6 DEF Lock, ReadConfig, Bind, Drain, Unlock, Acknowledge, Mishap, StartupFails,
                Signal, ServerEnds, Crash
  <2>2. \A e \in Daemons : At(e, "serving")' => At(e, "serving")
    BY <1>6 DEF DaemonTypeOK, Move, Leave, Lock, ReadConfig, Bind, Drain, Unlock, Acknowledge,
                Mishap, StartupFails, Signal, ServerEnds, Crash
  <2> QED BY <2>1, <2>2
<1> QED BY <1>1, <1>2, <1>3, <1>4, <1>5, <1>6, <1>7 DEF DaemonNext, DaemonStep

\* A client that reads daemon.json finds the daemon that serves.
THEOREM Discoverable == DaemonSpec => []ListedWhileServing
<1>1. DaemonInit => ListedWhileServing
  BY DEF DaemonInit, ListedWhileServing, At
<1> QED BY <1>1, NextKeepsListed, DaemonTyped, LockHeld, PTL DEF DaemonSpec

----------------------------------------------------------------------------
(* The answer to a stop request.  daemon.json is removed before the lock   *)
(* goes, and the answer follows both, so a process past that point is      *)
(* never named again: only one that has bound its ports writes the file.   *)

\* A process that has removed daemon.json, or answered, is not named by it.
Released(d) ==
    /\ daemon[d].reply = "stopped" => At(d, "gone")
    /\ daemon[d].stage \in {"unlisted", "unlocked"} \/ daemon[d].reply = "stopped"
           => endpoint # d

LEMMA NextKeepsReleased ==
    DaemonTypeOK /\ (\A d \in Daemons : Released(d)) /\ [DaemonNext]_daemonVars
        => (\A d \in Daemons : Released(d))'
<1> SUFFICES ASSUME DaemonTypeOK, \A e \in Daemons : Released(e), [DaemonNext]_daemonVars,
                    NEW d \in Daemons
             PROVE  Released(d)'
  OBVIOUS
<1> USE DEF Released, At
<1>1. CASE UNCHANGED daemonVars \/ Environment
  BY <1>1 DEF daemonVars, Environment, EditConfig, TakePort
<1>2. CASE \E e \in Daemons, c \in Configs : Fork(e, c)
  BY <1>2 DEF DaemonTypeOK, Fork
<1>3. ASSUME NEW e \in Daemons, Publish(e) PROVE Released(d)'
  BY <1>3 DEF Publish, Move, DaemonTypeOK, Starting, Ending
<1>4. ASSUME NEW e \in Daemons, Unlist(e) PROVE Released(d)'
  BY <1>4, DaemonAssumption DEF Unlist, Move, DaemonTypeOK
<1>5. ASSUME NEW e \in Daemons, Unlock(e) \/ Acknowledge(e) \/ Crash(e) PROVE Released(d)'
  BY <1>5 DEF Unlock, Acknowledge, Crash, Move, Leave, DaemonTypeOK
<1>6. ASSUME NEW e \in Daemons,
             Drain(e) \/ ServerEnds(e) \/ Signal(e)
      PROVE  Released(d)'
  BY <1>6 DEF Drain, ServerEnds, Signal, Move, Leave, DaemonTypeOK
<1>8. ASSUME NEW e \in Daemons, TakeStop(e) \/ Request(e) \/ Forsake(e) PROVE Released(d)'
  BY <1>8, AskedFields
<1>7. ASSUME NEW e \in Daemons, Lock(e) \/ ReadConfig(e) \/ Bind(e) \/ StartupFails(e)
      PROVE  Released(d)'
  BY <1>7 DEF Lock, ReadConfig, Bind, StartupFails, Move, DaemonTypeOK, Starting, Ending
<1> QED BY <1>1, <1>2, <1>3, <1>4, <1>5, <1>6, <1>7, <1>8 DEF DaemonNext, DaemonStep, Mishap

\* "stopped" is answered by a process that holds neither the lock nor the name
\* in daemon.json, whatever other processes do before the answer is read.
THEOREM AnsweredReleased == DaemonSpec => [](\A d \in Daemons : Released(d))
<1>1. DaemonInit => \A d \in Daemons : Released(d)
  BY DEF DaemonInit, Released, At
<1> QED BY <1>1, NextKeepsReleased, DaemonTyped, PTL DEF DaemonSpec

----------------------------------------------------------------------------
(* The app.  Its command is always about a known process and a known       *)
(* configuration, so that whatever it does to a daemon is a step of that   *)
(* daemon: the daemons that it controls are the daemons specified here.    *)

GuiRec ==
    [pc : Points, job : Jobs, phase : Phases, generation : Nat,
     running : Daemons \cup {NoOne}, child : Daemons \cup {NoOne},
     setting : Configs \cup {NoConfig}, target : Configs \cup {NoConfig},
     previous : Configs \cup {NoConfig}, named : Configs \cup {NoConfig}, missed : BOOLEAN]

GuiTyped == gui \in GuiRec /\ Coherent

USE ControlAssumption, DaemonAssumption
USE DEF GuiRec, GuiTyped, Points, Jobs, Phases, Is

LEMMA DownTyped == Down \in GuiRec
  BY DEF Down

LEMMA ConfigTyped == ASSUME DaemonTypeOK, NEW d \in Daemons PROVE daemon[d].config \in Configs
  BY DEF DaemonTypeOK

\* The three updates that commands are made of.
LEMMA DoneFields ==
    ASSUME NEW g \in GuiRec
    PROVE  /\ Done(g) \in GuiRec /\ Done(g).pc = "idle"
           /\ Done(g).setting = g.setting /\ Done(g).running = g.running /\ Done(g).phase = g.phase
           /\ Done(g).missed = g.missed
  BY DEF Done

LEMMA BeginFields ==
    ASSUME NEW g \in GuiRec, NEW job \in Jobs, NEW c \in Configs
    PROVE  LET b == Begin(job, c, g)
           IN  /\ b \in GuiRec /\ b.pc = "check" /\ b.job = job /\ b.target = c
               /\ b.setting = g.setting /\ b.running = g.running /\ b.phase = g.phase
               /\ b.missed = g.missed
  BY ZenonT(60) DEF Begin

LEMMA AttachedFields ==
    ASSUME NEW g \in GuiRec, NEW d \in Daemons
    PROVE  /\ Attached(d, g) \in GuiRec
           /\ Attached(d, g).running = d /\ Attached(d, g).phase = "running"
           /\ Attached(d, g).pc = g.pc /\ Attached(d, g).setting = g.setting
           /\ Attached(d, g).missed = FALSE
<1> DEFINE n == g.generation + 1
<1>1. n \in Nat
  OBVIOUS
<1>2. Attached(d, g) = [g EXCEPT !.running = d, !.generation = n, !.phase = "running", !.missed = FALSE]
  BY DEF Attached
<1> HIDE DEF n
<1> QED BY <1>1, <1>2

LEMMA LaunchTyped ==
    ASSUME DaemonTypeOK, disk \in Configs, NEW c \in Configs \cup {NoConfig}, Launch(c)
    PROVE  GuiTyped'
<1> DEFINE setting == IF c = NoConfig THEN disk ELSE c
           fresh   == [Down EXCEPT !.pc = "idle", !.setting = setting, !.named = c]
           live    == daemon[endpoint].config
           found   == [Attached(endpoint, fresh) EXCEPT !.setting = live]
<1>0. \/ gui' = fresh
      \/ gui' = Begin("start", setting, fresh)
      \/ /\ endpoint # NoOne
         /\ \/ gui' = found
            \/ c \in Configs /\ gui' = Begin("start", c, [found EXCEPT !.setting = c])
  <2>1. \/ gui' \in {fresh, Begin("start", setting, fresh)}
        \/ /\ endpoint # NoOne
           /\ IF c \notin {NoConfig, live}
              THEN gui' = Begin("start", c, [found EXCEPT !.setting = c])
              ELSE gui' = found
    BY Zenon DEF Launch
  <2> HIDE DEF fresh, found, setting
  <2> QED BY <2>1
<1>1. /\ setting \in Configs /\ fresh \in GuiRec /\ fresh.pc = "idle"
      /\ fresh.setting = setting /\ fresh.running = NoOne /\ fresh.phase = "stopped"
      /\ fresh.missed = FALSE
  BY DownTyped DEF Down
<1> HIDE DEF setting, fresh
<1>2. CASE gui' = fresh
  BY <1>1, <1>2 DEF Coherent
<1>3. CASE gui' = Begin("start", setting, fresh)
  BY <1>1, <1>3, BeginFields DEF Coherent, Jobs
<1>4. ASSUME endpoint # NoOne,
             \/ gui' = found
             \/ c \in Configs /\ gui' = Begin("start", c, [found EXCEPT !.setting = c])
      PROVE  GuiTyped'
  <2>1. endpoint \in Daemons /\ live \in Configs
    BY <1>4, ConfigTyped DEF DaemonTypeOK
  <2> HIDE DEF live
  <2>2. /\ found \in GuiRec /\ found.running = endpoint /\ found.phase = "running"
        /\ found.setting = live /\ found.pc = "idle"
    <3> DEFINE a == Attached(endpoint, fresh)
    <3>1. a \in GuiRec /\ a.running = endpoint /\ a.phase = "running" /\ a.pc = "idle"
      <4>1. fresh \in GuiRec /\ endpoint \in Daemons /\ fresh.pc = "idle"
        BY <1>1, <2>1
      <4>2. /\ a \in GuiRec /\ a.running = endpoint /\ a.phase = "running" /\ a.pc = fresh.pc
        <5> HIDE DEF GuiRec, fresh
        <5> QED BY <4>1, AttachedFields
      <4> QED BY <4>1, <4>2
    <3> HIDE DEF a
    <3>2. found = [a EXCEPT !.setting = live]
      BY DEF a
    <3> QED BY <2>1, <3>1, <3>2
  <2> HIDE DEF found
  <2>3. CASE gui' = found
    BY <2>1, <2>2, <2>3 DEF Coherent
  <2>4. CASE c \in Configs /\ gui' = Begin("start", c, [found EXCEPT !.setting = c])
    <3> DEFINE renamed == [found EXCEPT !.setting = c]
    <3>1. renamed \in GuiRec /\ renamed.setting = c /\ renamed.running = endpoint
      BY <2>2, <2>4
    <3> HIDE DEF renamed
    <3>2. gui' = Begin("start", c, renamed)
      BY <2>4 DEF renamed
    <3>3. renamed.phase = "running"
      BY <2>2, <2>4 DEF renamed
    <3> QED BY <2>1, <2>4, <3>1, <3>2, <3>3, BeginFields DEF Coherent, Jobs
  <2> QED BY <1>4, <2>3, <2>4
<1> HIDE DEF found
<1> QED BY <1>0, <1>2, <1>3, <1>4

LEMMA CommandTyped ==
    ASSUME DaemonTypeOK, GuiTyped,
           \/ Start \/ Stop \/ SavePreferences \/ Kill
           \/ \E c \in Configs : Switch(c) \/ SecondLaunch(c)
           \/ \E keep \in BOOLEAN : Quit(keep)
    PROVE  GuiTyped'
<1>1. CASE Start
  BY <1>1 DEF Start, Begin, Idle, Coherent
<1>2. CASE Stop
  BY <1>2 DEF Stop, Idle, Coherent
<1>3. CASE SavePreferences \/ \E c \in Configs : SecondLaunch(c)
  BY <1>3 DEF SavePreferences, SecondLaunch, Coherent
<1>4. CASE Kill
  BY <1>4 DEF Kill, Down, Coherent
<1>5. ASSUME NEW c \in Configs, Switch(c) PROVE GuiTyped'
  <2>1. gui.running # NoOne => daemon[gui.running].config \in Configs
    BY ConfigTyped
  <2>2. gui' \in GuiRec
    BY ZenonT(60), <1>5, <2>1 DEF Switch, Begin
  <2>3. Coherent'
    BY <1>5, <2>1 DEF Switch, Begin, Idle, Coherent
  <2> QED BY <2>2, <2>3
<1>6. ASSUME NEW keep \in BOOLEAN, Quit(keep) PROVE GuiTyped'
  <2>1. gui' \in GuiRec
    BY ZenonT(60), <1>6, DownTyped DEF Quit, Down
  <2>2. Coherent'
    BY <1>6 DEF Quit, Down, Coherent
  <2> QED BY <2>1, <2>2
<1> QED BY <1>1, <1>2, <1>3, <1>4, <1>5, <1>6

LEMMA StoppedTyped ==
    ASSUME GuiTyped, gui.pc \in {"ask", "wait"}, Stopped
    PROVE  GuiTyped'
<1> DEFINE free == [gui EXCEPT !.running = NoOne, !.generation = @ + 1, !.phase = "stopped", !.missed = FALSE]
<1> DEFINE n == gui.generation + 1
<1>0. n \in Nat /\ free = [gui EXCEPT !.running = NoOne, !.generation = n, !.phase = "stopped", !.missed = FALSE]
  OBVIOUS
<1> HIDE DEF n
<1>1. /\ free \in GuiRec /\ free.running = NoOne /\ free.phase = "stopped" /\ free.missed = FALSE
      /\ free.job = gui.job /\ free.setting = gui.setting
      /\ free.target = gui.target /\ free.previous = gui.previous
  <2> HIDE DEF free
  <2> QED BY <1>0
<1> HIDE DEF free
<1>2. CASE gui.job = "stop"
  <2>1. gui' = Done(free)
    BY <1>2 DEF Stopped, free
  <2>2. gui.setting \in Configs
    BY DEF Coherent
  <2> QED BY <1>1, <2>1, <2>2, DoneFields DEF Coherent
<1>3. CASE gui.job = "quit"
  <2>1. gui' = [Down EXCEPT !.job = "quit"]
    BY <1>3 DEF Stopped
  <2>2. /\ gui' \in GuiRec /\ gui'.pc = "down" /\ gui'.running = NoOne /\ gui'.phase = "stopped"
        /\ gui'.missed = FALSE
    BY <2>1, DownTyped DEF Down
  <2> QED BY <2>2 DEF Coherent
<1>4. CASE gui.job \notin {"stop", "quit"}
  <2>1. gui' = [free EXCEPT !.pc = "fork"]
    BY <1>4 DEF Stopped, free
  <2>2. gui' \in GuiRec
    BY <1>1, <2>1
  <2>3. Coherent'
    BY <1>1, <1>4, <2>1 DEF Coherent
  <2> QED BY <2>2, <2>3
<1> QED BY <1>2, <1>3, <1>4

\* A failed try_start, whatever it leaves in g.
LEMMA FailedTyped ==
    ASSUME NEW g \in GuiRec, g.phase # "stopped", g.setting \in Configs,
           g.running = NoOne => g.phase # "running",
           g.missed => g.running # NoOne,
           g.job = "switch" => g.previous \in Configs,
           gui' = TryFailed(g)
    PROVE  GuiTyped'
<1>1. CASE g.job = "switch" /\ g.running = NoOne
  <2>1. gui' = [g EXCEPT !.pc = "check", !.job = "restore", !.target = g.previous, !.child = NoOne]
    BY <1>1 DEF TryFailed
  <2>2. gui' \in GuiRec
    BY <2>1
  <2>3. Coherent'
    BY <1>1, <2>1 DEF Coherent
  <2> QED BY <2>2, <2>3
<1>2. CASE ~(g.job = "switch" /\ g.running = NoOne)
  BY <1>2, DoneFields DEF TryFailed, Coherent
<1> QED BY <1>1, <1>2

\* f is g when a request or a start has failed.
AsFailed(g, f) ==
    /\ f \in GuiRec /\ f.phase = "failed" /\ (f.missed => g.running # NoOne)
    /\ f.pc = g.pc /\ f.job = g.job /\ f.generation = g.generation /\ f.running = g.running
    /\ f.child = g.child /\ f.setting = g.setting /\ f.target = g.target
    /\ f.previous = g.previous /\ f.named = g.named

LEMMA FailsAlone ==
    ASSUME GuiTyped
    PROVE  LET f == [gui EXCEPT !.phase = "failed"] IN AsFailed(gui, f) /\ f.missed = gui.missed
  BY DEF AsFailed, Coherent

LEMMA FailsAsked ==
    ASSUME GuiTyped, gui.running # NoOne
    PROVE  LET f == [gui EXCEPT !.phase = "failed", !.missed = TRUE]
           IN  AsFailed(gui, f) /\ f.missed = TRUE
  BY DEF AsFailed

LEMMA JustFailed ==
    ASSUME GuiTyped, gui.pc \notin {"down", "idle"}, NEW f, AsFailed(gui, f),
           gui' \in {TryFailed(f), Done(f)}
    PROVE  GuiTyped'
<1>1. gui.setting \in Configs /\ (gui.job = "switch" => gui.previous \in Configs)
  BY DEF Coherent
<1>2. CASE gui' = TryFailed(f)
  BY <1>1, <1>2, FailedTyped DEF AsFailed
<1>3. CASE gui' = Done(f)
  BY <1>1, <1>3, DoneFields DEF AsFailed, Coherent
<1> QED BY <1>2, <1>3

\* What stop() does to the app when it fails.
LEMMA NotStoppedShape ==
    ASSUME GuiTyped, gui.pc \in {"ask", "wait"}, NotStopped
    PROVE  \E f : /\ AsFailed(gui, f) /\ f.missed /\ monitors' = monitors
                  /\ gui' = TryFailed(f) \/ (gui' = Done(f) /\ gui.job # "switch")
<1> DEFINE f == [gui EXCEPT !.phase = "failed", !.missed = TRUE]
<1>1. gui.running # NoOne
  BY DEF Coherent
<1>2. AsFailed(gui, f) /\ f.missed
  BY <1>1, FailsAsked
<1>3. gui' = IF gui.job \in {"stop", "quit"} THEN Done(f) ELSE TryFailed(f)
  BY Zenon DEF NotStopped
<1>4. monitors' = monitors
  BY Zenon DEF NotStopped
<1> HIDE DEF f
<1> QED BY <1>2, <1>3, <1>4

LEMMA NotStoppedTyped ==
    ASSUME GuiTyped, gui.pc \in {"ask", "wait"}, NotStopped
    PROVE  GuiTyped'
  BY NotStoppedShape, JustFailed

LEMMA ProgressTyped ==
    ASSUME DaemonTypeOK, GuiTyped, Progress
    PROVE  GuiTyped'
<1>1. CASE Check
  <2>1. CASE gui.target \in usable
    BY <1>1, <2>1 DEF Check, Coherent
  <2>2. CASE gui.target \notin usable
    <3>1. CASE gui.phase = "running"
      <4>1. gui' = TryFailed(gui)
        BY <1>1, <2>2, <3>1 DEF Check
      <4> QED BY <1>1, <3>1, <4>1, FailedTyped DEF Check, Coherent
    <3>2. CASE gui.phase # "running"
      <4> DEFINE f == [gui EXCEPT !.phase = "failed"]
      <4>1. AsFailed(gui, f) /\ gui' = TryFailed(f) /\ gui.pc = "check"
        BY <1>1, <2>2, <3>2, FailsAlone DEF Check
      <4> HIDE DEF f
      <4> QED BY <4>1, JustFailed
    <3> QED BY <3>1, <3>2
  <2> QED BY <2>1, <2>2
<1>2. CASE AskRefused
  BY <1>2, StoppedTyped DEF AskRefused
<1>3. CASE AskSent
  BY <1>3 DEF AskSent, Coherent
<1>4. CASE AskFails \/ Unanswered
  BY <1>4, NotStoppedTyped DEF AskFails, Unanswered
<1>5. CASE Answered
  BY <1>5, StoppedTyped, NotStoppedTyped DEF Answered
<1>6. CASE ForkDaemon
  BY ZenonT(60), <1>6 DEF ForkDaemon, Coherent
<1>7. CASE Ready
  <2> DEFINE attached == Attached(gui.child, gui)
  <2>1. gui.child \in Daemons /\ gui.target \in Configs /\ gui.setting \in Configs
    BY <1>7 DEF Ready, Coherent
  <2>2. /\ attached \in GuiRec /\ attached.running \in Daemons /\ attached.phase = "running"
        /\ attached.setting \in Configs
    <3>1. gui \in GuiRec
      OBVIOUS
    <3> HIDE DEF GuiRec, GuiTyped
    <3> QED BY <2>1, <3>1, AttachedFields
  <2> DEFINE switched == [attached EXCEPT !.setting = gui.target, !.named = NoConfig]
  <2>3. gui' \in {Done(attached), Done(switched)}
    BY <1>7 DEF Ready
  <2> HIDE DEF attached
  <2>4. /\ switched \in GuiRec /\ switched.running \in Daemons /\ switched.phase = "running"
        /\ switched.setting \in Configs
    BY <2>1, <2>2
  <2> HIDE DEF switched
  <2>5. PICK g \in {attached, switched} : gui' = Done(g)
    BY <2>3
  <2> QED BY <2>2, <2>4, <2>5, DoneFields DEF Coherent
<1>8. CASE ForkFails \/ ChildEnded \/ GiveUp
  <2> DEFINE f == [gui EXCEPT !.phase = "failed"]
  <2>1. gui' = TryFailed(f)
    BY <1>8 DEF ForkFails, ChildEnded, GiveUp, StartFailed
  <2>2. gui.pc \in {"fork", "poll"}
    BY <1>8 DEF ForkFails, ChildEnded, GiveUp
  <2>3. AsFailed(gui, f)
    BY FailsAlone
  <2> HIDE DEF f
  <2> QED BY <2>1, <2>2, <2>3, JustFailed
<1> QED BY <1>1, <1>2, <1>3, <1>4, <1>5, <1>6, <1>7, <1>8 DEF Progress

LEMMA WatchTyped ==
    ASSUME GuiTyped, monitors \subseteq [of : Daemons, generation : Nat, lost : BOOLEAN], Watch
    PROVE  GuiTyped'
<1>1. CASE UNCHANGED gui
  BY <1>1 DEF Coherent
<1>2. PICK m \in monitors : MonitorLoses(m) \/ MonitorReports(m)
  BY DEF Watch
<1>3. CASE MonitorReports(m)
  BY <1>3 DEF MonitorReports, Coherent
<1>4. CASE MonitorLoses(m)
  <2>1. m.of # NoOne
    OBVIOUS
  <2> DEFINE b == gui.missed \/ m.of = gui.running
  <2>2. gui' = [gui EXCEPT !.missed = b]
    BY <1>4 DEF MonitorLoses
  <2>3. b \in BOOLEAN
    OBVIOUS
  <2> HIDE DEF b
  <2>4. gui' \in GuiRec
    BY <2>2, <2>3
  <2>5. /\ gui'.pc = gui.pc /\ gui'.job = gui.job /\ gui'.phase = gui.phase
        /\ gui'.running = gui.running /\ gui'.child = gui.child /\ gui'.setting = gui.setting
        /\ gui'.target = gui.target /\ gui'.previous = gui.previous /\ gui'.missed = b
    BY <2>2
  <2>6. Coherent'
    <3>1. b => gui.running # NoOne
      BY <2>1 DEF b, Coherent
    <3> HIDE DEF GuiRec
    <3> QED BY <2>5, <3>1 DEF Coherent
  <2> QED BY <2>4, <2>6
<1> QED BY <1>1, <1>2, <1>3, <1>4

\* Whatever the app and the rest of the world do, the daemons only take steps
\* of their own specification.
LEMMA NextSteps ==
    ASSUME DaemonTypeOK, GuiTyped, Next
    PROVE  [DaemonNext]_daemonVars
<1>1. CASE Command
  BY <1>1 DEF Command, Launch, Start, Stop, SavePreferences, Switch, Quit
<1>2. CASE Progress
  <2>1. CASE Check \/ AskRefused \/ AskFails \/ Answered \/ ForkFails \/ Ready \/ ChildEnded
    BY <2>1 DEF Check, AskRefused, AskFails, Answered, ForkFails, Ready, ChildEnded
  <2>2. CASE AskSent \/ Unanswered
    <3>1. gui.running \in Daemons /\ (Request(gui.running) \/ Forsake(gui.running))
      BY <2>2 DEF AskSent, Unanswered, Coherent
    <3> QED BY <3>1 DEF DaemonNext
  <2>3. CASE ForkDaemon
    <3>1. gui.target \in Configs
      BY <2>3 DEF ForkDaemon, Coherent
    <3> QED BY <2>3, <3>1 DEF ForkDaemon, DaemonNext
  <2>4. CASE GiveUp
    <3>1. gui.child \in Daemons /\ Crash(gui.child)
      BY <2>4 DEF GiveUp, Coherent
    <3> QED BY <3>1 DEF DaemonNext, Mishap
  <2> QED BY <1>2, <2>1, <2>2, <2>3, <2>4 DEF Progress
<1>3. CASE Watch
  BY <1>3 DEF Watch, MonitorLoses, MonitorReports
<1>4. CASE World
  BY <1>4 DEF World, DaemonNext
<1>5. CASE \E c \in Configs : SecondLaunch(c)
  BY <1>5 DEF SecondLaunch
<1>6. CASE Kill
  <2>1. CASE Is("wait")
    <3>1. gui.running \in Daemons /\ Forsake(gui.running)
      BY <1>6, <2>1 DEF Kill, Coherent
    <3> QED BY <3>1 DEF DaemonNext
  <2>2. CASE ~Is("wait")
    BY <1>6, <2>2 DEF Kill
  <2> QED BY <2>1, <2>2
<1> QED BY <1>1, <1>2, <1>3, <1>4, <1>5, <1>6 DEF Next

LEMMA InitAll == Init => TypeOK
<1> SUFFICES ASSUME Init PROVE TypeOK
  OBVIOUS
<1>1. DaemonTypeOK
  BY InitTyped DEF Init
<1>2. gui \in GuiRec /\ Coherent
  BY DownTyped DEF Init, Down, Coherent
<1> QED BY <1>1, <1>2 DEF Init, TypeOK

LEMMA MonitorsTyped ==
    ASSUME DaemonTypeOK, GuiTyped, monitors \subseteq [of : Daemons, generation : Nat, lost : BOOLEAN],
           Next
    PROVE  monitors' \subseteq [of : Daemons, generation : Nat, lost : BOOLEAN]
<1> DEFINE M == [of : Daemons, generation : Nat, lost : BOOLEAN]
<1>1. ASSUME NEW d \in Daemons, NEW g \in GuiRec PROVE Monitor(d, g) \in M
  BY DEF Monitor
<1>2. ASSUME NEW c \in Configs \cup {NoConfig}, Launch(c) PROVE monitors' \subseteq M
  <2> DEFINE fresh == [Down EXCEPT !.pc = "idle", !.setting = IF c = NoConfig THEN disk ELSE c, !.named = c]
             found == [Attached(endpoint, fresh) EXCEPT !.setting = daemon[endpoint].config]
  <2>1. \/ monitors' = {}
        \/ endpoint # NoOne /\ monitors' = {Monitor(endpoint, found)}
    BY <1>2, Zenon DEF Launch
  <2>2. found.generation \in Nat
    BY DEF Attached, Down
  <2>3. Monitor(endpoint, found) = [of |-> endpoint, generation |-> found.generation, lost |-> FALSE]
    BY DEF Monitor
  <2>4. endpoint # NoOne => Monitor(endpoint, found) \in M
    <3> HIDE DEF found
    <3> QED BY <2>2, <2>3 DEF DaemonTypeOK
  <2> HIDE DEF found, M
  <2> QED BY <2>1, <2>4
<1>3. CASE UNCHANGED monitors \/ monitors' \subseteq monitors
  BY <1>3
<1>4. CASE Ready
  <2>1. gui.child \in Daemons
    BY <1>4 DEF Ready, Coherent
  <2>2. monitors' = monitors \cup {Monitor(gui.child, Attached(gui.child, gui))}
    BY <1>4 DEF Ready
  <2>3. Attached(gui.child, gui) \in GuiRec
    <3>1. gui \in GuiRec
      OBVIOUS
    <3> HIDE DEF GuiRec, GuiTyped
    <3> QED BY <2>1, <3>1, AttachedFields
  <2> QED BY <1>1, <2>1, <2>2, <2>3
<1>5. CASE Watch
  <2>1. PICK m \in monitors : MonitorLoses(m) \/ MonitorReports(m)
    BY <1>5 DEF Watch
  <2>2. [m EXCEPT !.lost = TRUE] \in M
    <3>1. m \in [of : Daemons, generation : Nat, lost : BOOLEAN]
      OBVIOUS
    <3> QED BY ONLY <3>1
  <2>3. monitors' \subseteq monitors \cup {[m EXCEPT !.lost = TRUE]}
    BY <2>1 DEF MonitorLoses, MonitorReports
  <2> HIDE DEF M
  <2>4. monitors \subseteq M
    BY DEF M
  <2> QED BY ZenonT(60), <2>2, <2>3, <2>4
<1>6. CASE AskRefused \/ AskFails \/ Answered \/ Unanswered
  <2>1. Stopped => monitors' \in {{}, {m \in monitors : m.lost}}
    <3>1. CASE gui.job = "stop"
      BY <3>1 DEF Stopped
    <3>2. CASE gui.job = "quit"
      BY <3>2 DEF Stopped
    <3>3. CASE gui.job \notin {"stop", "quit"}
      BY <3>3 DEF Stopped
    <3> QED BY <3>1, <3>2, <3>3
  <2>2. Stopped \/ NotStopped
    BY <1>6 DEF AskRefused, AskFails, Answered, Unanswered
  <2>3. NotStopped => monitors' = monitors
    BY Zenon DEF NotStopped
  <2>4. monitors' \subseteq monitors
    BY <2>1, <2>2, <2>3
  <2> QED BY <2>4
<1>7. CASE Progress /\ ~(Ready \/ AskRefused \/ AskFails \/ Answered \/ Unanswered)
  BY <1>7 DEF Progress, Check, AskSent, ForkDaemon, ForkFails, ChildEnded, GiveUp, StartFailed
<1>8. CASE Kill \/ World \/ (\E c \in Configs : SecondLaunch(c)) \/ Start \/ Stop
           \/ SavePreferences \/ (\E c \in Configs : Switch(c)) \/ \E keep \in BOOLEAN : Quit(keep)
  BY <1>8 DEF Kill, World, SecondLaunch, Start, Stop, SavePreferences, Switch, Quit, guiVars
<1> QED BY <1>2, <1>4, <1>5, <1>6, <1>7, <1>8 DEF Next, Command

LEMMA DiskTyped ==
    ASSUME DaemonTypeOK, GuiTyped, disk \in Configs, Next
    PROVE  disk' \in Configs
<1>1. ASSUME NEW c \in Configs \cup {NoConfig}, Launch(c) PROVE disk' \in Configs
  <2> DEFINE live == daemon[endpoint].config
  <2>1. \/ disk' = IF c = NoConfig THEN disk ELSE c
        \/ /\ endpoint # NoOne
           /\ IF c \notin {NoConfig, live} THEN disk' = c ELSE disk' = live
    BY <1>1, Zenon DEF Launch
  <2>2. endpoint # NoOne => live \in Configs
    BY ConfigTyped DEF DaemonTypeOK
  <2> HIDE DEF live
  <2> QED BY <2>1, <2>2
<1>2. CASE Start \/ Stop \/ SavePreferences \/ (\E c \in Configs : Switch(c))
           \/ (\E keep \in BOOLEAN : Quit(keep)) \/ Kill \/ (\E c \in Configs : SecondLaunch(c))
  BY <1>2 DEF Start, Stop, SavePreferences, Switch, Quit, Kill, SecondLaunch, Coherent
<1>3. CASE Progress
  <2>1. disk' \in {disk, gui.setting} /\ gui.pc # "down"
    BY <1>3 DEF Progress, Check, AskRefused, AskFails, AskSent, Answered, Unanswered, ForkDaemon,
                ForkFails, Ready, ChildEnded, GiveUp, StartFailed, NotStopped, Unsave
  <2> QED BY <2>1 DEF Coherent
<1>4. CASE Watch \/ World
  BY <1>4 DEF Watch, World, MonitorLoses, MonitorReports, guiVars
<1> QED BY <1>1, <1>2, <1>3, <1>4 DEF Next, Command

LEMMA StepKeepsTypes == TypeOK /\ [Next]_vars => TypeOK' /\ [DaemonNext]_daemonVars
<1> SUFFICES ASSUME TypeOK, [Next]_vars PROVE TypeOK' /\ [DaemonNext]_daemonVars
  OBVIOUS
<1>1. DaemonTypeOK /\ GuiTyped /\ disk \in Configs
      /\ monitors \subseteq [of : Daemons, generation : Nat, lost : BOOLEAN]
  BY DEF TypeOK
<1>2. CASE UNCHANGED vars
  BY <1>2 DEF vars, TypeOK, DaemonTypeOK, Coherent
<1>3. CASE Next
  <2>1. [DaemonNext]_daemonVars
    BY <1>1, <1>3, NextSteps
  <2>2. DaemonTypeOK'
    BY <1>1, <2>1, NextTyped
  <2>3. GuiTyped'
    <3>1. CASE World
      BY <1>1, <3>1 DEF World, guiVars, Coherent
    <3> QED BY <1>1, <1>3, <3>1, LaunchTyped, CommandTyped, ProgressTyped, WatchTyped DEF Next, Command
  <2>4. disk' \in Configs /\ monitors' \subseteq [of : Daemons, generation : Nat, lost : BOOLEAN]
    BY <1>1, <1>3, DiskTyped, MonitorsTyped
  <2> QED BY <2>1, <2>2, <2>3, <2>4 DEF TypeOK
<1> QED BY <1>2, <1>3

\* The type invariant of the composed system, with what the fields of gui say
\* of each other.
THEOREM ControlTyped == Spec => []TypeOK
  BY InitAll, StepKeepsTypes, PTL DEF Spec

\* The daemons of the composed system are the daemons of Daemon: every theorem
\* above holds for them, whatever the app does.
THEOREM ControlledDaemons == Spec => DaemonSpec
<1>1. Init => DaemonInit
  BY DEF Init
<1> QED BY <1>1, StepKeepsTypes, ControlTyped, PTL DEF Spec, DaemonSpec

\* So a client that reads daemon.json finds the daemon that serves, and no two
\* registered daemons listen, while the app starts, stops, switches and dies.
THEOREM ControlledSafety == Spec => [](OneListener /\ ListedWhileServing)
  BY ControlledDaemons, AtMostOneListens, Discoverable, PTL

\* A stop that is answered has released all the daemon held: the next start
\* finds the lock free and no daemon.json of the old one.
THEOREM AnsweredWhenReleased == Spec => []AnswerReleasesAll
<1>1. (\A d \in Daemons : Released(d)) => AnswerReleasesAll
  BY DEF Released, AnswerReleasesAll, Registered, At
<1> QED BY <1>1, AnsweredReleased, ControlledDaemons, PTL

----------------------------------------------------------------------------
(* What the app believes of its daemon.  A daemon that it has attached, or *)
(* that a monitor watches, was serving once: from there on it can only end *)
(* and closes its port on the way, because its number is not used again.   *)

\* A process that has come as far as serving; r is its record in daemon.
Settled(r) ==
    /\ r.stage \in Ending \cup {"serving", "gone"}
    /\ r.open => r.stage \in {"serving", "stopping"}

\* What r can become without a new process under its number.
Heir(r, s) ==
    Settled(r) => /\ Settled(s) /\ s.config = r.config
                  /\ r.stage # "serving" => s.stage # "serving"

\* A step of the daemons that gives d's number to no new process.
Runs(d) ==
    \/ UNCHANGED daemon
    \/ \E e \in Daemons : Moves(e)
    \/ \E e \in Daemons \ {d}, c \in Configs : Fork(e, c)

LEMMA RunsOn ==
    ASSUME DaemonTypeOK, NEW d \in Daemons, Runs(d)
    PROVE  Heir(daemon[d], daemon'[d]) /\ daemon'[d].config = daemon[d].config
<1> DEFINE Goal == Heir(daemon[d], daemon'[d]) /\ daemon'[d].config = daemon[d].config
<1>0. daemon[d] \in Process /\ daemon \in [Daemons -> Process]
  BY DEF DaemonTypeOK, Process
<1>1. ASSUME daemon'[d] = daemon[d] PROVE Goal
  BY <1>1 DEF Heir
<1>2. ASSUME NEW e \in Daemons, e # d,
             Moves(e) \/ \E c \in Configs : Fork(e, c)
      PROVE  daemon'[d] = daemon[d]
  BY <1>0, <1>2 DEF Moves, DaemonStep, Mishap, TakeStop, Request, Forsake, Fork, Lock, ReadConfig, Bind, Publish, StartupFails,
                    Signal, ServerEnds, Drain, Unlist, Unlock, Acknowledge, Crash, Move, Leave
<1>3. CASE Lock(d) \/ ReadConfig(d) \/ Bind(d) \/ Publish(d) \/ StartupFails(d)
  <2>1. daemon[d].stage \in Starting
    BY <1>3 DEF Lock, ReadConfig, Bind, Publish, StartupFails, At, Starting
  <2>2. Heir(daemon[d], daemon'[d])
    BY <2>1 DEF Heir, Settled, Starting, Ending
  <2>3. daemon'[d].config = daemon[d].config
    BY <1>0, <1>3 DEF Lock, ReadConfig, Bind, Publish, StartupFails, Move, Process
  <2> QED BY <2>2, <2>3
<1>4. CASE Signal(d)
  BY <1>0, <1>4 DEF Signal, At, Move, Heir, Settled, Ending, Process
<1>5. CASE Unlist(d) \/ Unlock(d)
  BY <1>0, <1>5 DEF Unlist, Unlock, At, Move, Heir, Settled, Ending, Process
<1>6. CASE ServerEnds(d) \/ Drain(d) \/ Acknowledge(d) \/ Crash(d)
  <2>1. PICK stage \in {"released", "gone"} : \E reply : Leave(d, stage, reply)
    BY <1>6 DEF ServerEnds, Drain, Acknowledge, Crash
  <2>2. daemon'[d].stage = stage /\ daemon'[d].config = daemon[d].config /\ daemon'[d].open = FALSE
    BY <1>0, <2>1 DEF Leave
  <2> QED BY <2>2 DEF Heir, Settled, Ending
<1>8. CASE TakeStop(d) \/ Request(d) \/ Forsake(d)
  BY <1>8, AskedFields DEF Heir, Settled, Ending
<1>7. CASE Moves(d)
  BY <1>3, <1>4, <1>5, <1>6, <1>7, <1>8 DEF Moves, DaemonStep, Mishap
<1> QED BY <1>1, <1>2, <1>7 DEF Runs

----------------------------------------------------------------------------
(* The invariant, of a record g of the app and the daemons D.              *)

Busy(g) == g.pc \notin {"idle", "down"}

\* What a command aims at agrees with the settings, and with the daemon that
\* it replaces.
Aimed(g, D) ==
    Busy(g) =>
        /\ g.job = "start" => g.target = g.setting
        /\ g.job = "switch" => /\ g.setting \in {g.previous, g.named}
                               /\ g.running # NoOne => g.previous = D[g.running].config
        /\ g.job = "restore" => g.setting \in {g.target, g.named}

Believes(g, D) ==
    /\ g.running # NoOne => /\ Settled(D[g.running])
                            /\ g.setting \in {D[g.running].config, g.named}
                            /\ g.phase = "failed" => g.missed
    /\ g.pc \in {"down", "fork", "poll"} => g.running = NoOne
    /\ g.pc = "poll" => D[g.child].config = g.target
    /\ g.pc = "idle" /\ g.job = "switch" => g.running # NoOne
    /\ Aimed(g, D)

\* The monitors of the present generation watch the attached daemon.
Watches(M, g, D) ==
    \A m \in M : /\ Settled(D[m.of])
                 /\ m.generation <= g.generation
                 /\ m.generation = g.generation /\ g.running # NoOne
                        => m.of = g.running /\ (m.lost => g.missed)

ControlInv == Believes(gui, daemon) /\ Watches(monitors, gui, daemon)

\* Daemons that go on do not disturb it.
LEMMA DaemonsGoOn ==
    ASSUME NEW g \in GuiRec, NEW D, NEW E, Believes(g, D),
           g.running # NoOne => Heir(D[g.running], E[g.running]),
           g.pc = "poll" => E[g.child].config = D[g.child].config
    PROVE  Believes(g, E)
  BY DEF Believes, Aimed, Heir

LEMMA DoneBelieves ==
    ASSUME NEW g \in GuiRec, NEW D, Believes(g, D), g.job = "switch" => g.running # NoOne
    PROVE  Believes(Done(g), D)
<1>1. /\ Done(g).pc = "idle" /\ Done(g).job = g.job /\ Done(g).running = g.running
      /\ Done(g).setting = g.setting /\ Done(g).named = g.named /\ Done(g).phase = g.phase
      /\ Done(g).missed = g.missed
  BY DEF Done
<1> QED BY <1>1 DEF Believes, Aimed, Busy

LEMMA FailBelieves ==
    ASSUME NEW g \in GuiRec, NEW D, Believes(g, D), Busy(g)
    PROVE  Believes(TryFailed(g), D)
<1>1. CASE g.job = "switch" /\ g.running = NoOne
  <2> DEFINE f == [g EXCEPT !.pc = "check", !.job = "restore", !.target = g.previous, !.child = NoOne]
  <2>1. /\ f.pc = "check" /\ f.job = "restore" /\ f.target = g.previous /\ f.running = NoOne
        /\ f.setting = g.setting /\ f.named = g.named
    BY <1>1
  <2>2. TryFailed(g) = f
    BY <1>1 DEF TryFailed
  <2>3. g.setting \in {g.previous, g.named}
    BY <1>1 DEF Believes, Aimed
  <2> HIDE DEF f
  <2> QED BY <2>1, <2>2, <2>3 DEF Believes, Aimed, Busy
<1>2. CASE ~(g.job = "switch" /\ g.running = NoOne)
  BY <1>2, DoneBelieves DEF TryFailed
<1> QED BY <1>1, <1>2

\* A failure is shown of a daemon with a cause, or of none.
LEMMA PhaseBelieves ==
    ASSUME NEW g \in GuiRec, NEW D, Believes(g, D), NEW f, AsFailed(g, f),
           g.running # NoOne => f.missed
    PROVE  Believes(f, D)
  BY DEF AsFailed, Believes, Aimed, Busy

LEMMA BeginBelieves ==
    ASSUME NEW g \in GuiRec, NEW D, Believes(g, D), g.pc \notin {"down", "fork", "poll"}
    PROVE  Believes(Begin("start", g.setting, g), D)
<1>1. LET b == Begin("start", g.setting, g)
      IN  /\ b.pc = "check" /\ b.job = "start" /\ b.target = g.setting /\ b.running = g.running
          /\ b.setting = g.setting /\ b.named = g.named /\ b.phase = g.phase /\ b.missed = g.missed
  BY DEF Begin
<1> QED BY <1>1 DEF Believes, Aimed, Busy

----------------------------------------------------------------------------
(* Each step keeps it.                                                     *)

\* The numbers that something refers to, and while nothing is created all of
\* them, are given to no new process.
LEMMA KnownRuns ==
    ASSUME DaemonTypeOK, GuiTyped, Next, NEW d \in Daemons,
           \/ gui.pc # "fork"
           \/ d = gui.running \/ \E m \in monitors : m.of = d
    PROVE  Runs(d)
<1>1. CASE Command
  BY <1>1 DEF Command, Launch, Start, Stop, SavePreferences, Switch, Quit, daemonVars, Runs
<1>2. CASE Check \/ AskRefused \/ AskFails \/ Answered \/ ForkFails \/ Ready \/ ChildEnded
  BY <1>2 DEF Check, AskRefused, AskFails, Answered, ForkFails, Ready, ChildEnded, daemonVars, Runs
<1>3. CASE AskSent \/ Unanswered
  <2>1. gui.running \in Daemons /\ (Request(gui.running) \/ Forsake(gui.running))
    BY <1>3 DEF AskSent, Unanswered, Coherent
  <2> QED BY <2>1 DEF Runs, Moves
<1>4. CASE ForkDaemon
  <2>1. PICK e \in Daemons : Unreferenced(e) /\ Fork(e, gui.target)
    BY <1>4 DEF ForkDaemon
  <2>2. e # d /\ gui.target \in Configs
    BY <1>4, <2>1 DEF ForkDaemon, Unreferenced, Coherent
  <2> QED BY <2>1, <2>2 DEF Runs
<1>5. CASE GiveUp
  <2>1. gui.child \in Daemons /\ Crash(gui.child)
    BY <1>5 DEF GiveUp, Coherent
  <2> QED BY <2>1 DEF Runs, Moves, Mishap
<1>6. CASE Watch
  BY <1>6 DEF Watch, MonitorLoses, MonitorReports, daemonVars, Runs
<1>7. CASE World
  <2>1. CASE Environment
    BY <2>1 DEF Environment, EditConfig, TakePort, Runs
  <2> QED BY <1>7, <2>1 DEF World, Runs, Moves
<1>8. CASE \E c \in Configs : SecondLaunch(c)
  BY <1>8 DEF SecondLaunch, daemonVars, Runs
<1>9. CASE Kill
  <2>1. CASE Is("wait")
    <3>1. gui.running \in Daemons /\ Forsake(gui.running)
      BY <1>9, <2>1 DEF Kill, Coherent
    <3> QED BY <3>1 DEF Runs, Moves
  <2>2. CASE ~Is("wait")
    BY <1>9, <2>2 DEF Kill, daemonVars, Runs
  <2> QED BY <2>1, <2>2
<1> QED BY <1>1, <1>2, <1>3, <1>4, <1>5, <1>6, <1>7, <1>8, <1>9 DEF Next, Progress

MonitorRec == [of : Daemons, generation : Nat, lost : BOOLEAN]

\* So the daemons do not disturb what the app, standing still, believes.
LEMMA StillBelieves ==
    ASSUME TypeOK, ControlInv, Next
    PROVE  Believes(gui, daemon') /\ Watches(monitors, gui, daemon')
<1>1. DaemonTypeOK /\ GuiTyped /\ monitors \subseteq MonitorRec
  BY DEF TypeOK, MonitorRec
<1>2. ASSUME gui.running # NoOne PROVE Heir(daemon[gui.running], daemon'[gui.running])
  <2>1. PICK d \in Daemons : d = gui.running
    BY <1>1, <1>2
  <2> QED BY <1>1, <2>1, KnownRuns, RunsOn
<1>3. ASSUME gui.pc = "poll" PROVE daemon'[gui.child].config = daemon[gui.child].config
  <2>1. PICK d \in Daemons : d = gui.child
    BY <1>1, <1>3 DEF Coherent
  <2>2. daemon'[d].config = daemon[d].config
    BY <1>1, <1>3, KnownRuns, RunsOn
  <2> QED BY <2>1, <2>2
<1>4. Believes(gui, daemon')
  BY <1>1, <1>2, <1>3, DaemonsGoOn DEF ControlInv
<1>5. Watches(monitors, gui, daemon')
  <2>1. ASSUME NEW m \in monitors PROVE Heir(daemon[m.of], daemon'[m.of])
    <3>1. PICK d \in Daemons : d = m.of
      BY <1>1 DEF MonitorRec
    <3> QED BY <1>1, <3>1, KnownRuns, RunsOn
  <2> QED BY <2>1 DEF ControlInv, Watches, Heir
<1> QED BY <1>4, <1>5

\* Fewer monitors, and an app that is in a later generation or has not
\* attached another daemon.
LEMMA WatchesLess ==
    ASSUME NEW M, NEW N, N \subseteq M, NEW g \in GuiRec, NEW h \in GuiRec, NEW D, Watches(M, g, D),
           M \subseteq MonitorRec,
           \/ /\ h.generation = g.generation /\ h.running \in {g.running, NoOne}
              /\ h.running # NoOne /\ g.missed => h.missed
           \/ h.generation > g.generation
    PROVE  Watches(N, h, D)
  BY DEF Watches, MonitorRec

LEMMA SameGeneration ==
    ASSUME NEW g \in GuiRec
    PROVE  /\ Done(g).generation = g.generation /\ Done(g).running = g.running
           /\ Done(g).pc = "idle" /\ Done(g).job = g.job
           /\ TryFailed(g).generation = g.generation /\ TryFailed(g).running = g.running
           /\ Done(g).missed = g.missed /\ TryFailed(g).missed = g.missed
           /\ Done(g) \in GuiRec /\ TryFailed(g) \in GuiRec
<1>1. /\ Done(g) \in GuiRec /\ Done(g).generation = g.generation /\ Done(g).running = g.running
      /\ Done(g).pc = "idle" /\ Done(g).job = g.job /\ Done(g).missed = g.missed
  BY DEF Done
<1>2. CASE g.job = "switch" /\ g.running = NoOne
  <2>1. TryFailed(g) = [g EXCEPT !.pc = "check", !.job = "restore", !.target = g.previous, !.child = NoOne]
    BY <1>2 DEF TryFailed
  <2> QED BY ZenonT(60), <1>1, <1>2, <2>1
<1>3. CASE ~(g.job = "switch" /\ g.running = NoOne)
  BY <1>1, <1>3 DEF TryFailed
<1> QED BY <1>1, <1>2, <1>3

LEMMA LaunchKeeps ==
    ASSUME DaemonTypeOK, disk \in Configs, NEW c \in Configs \cup {NoConfig}, Launch(c)
    PROVE  ControlInv'
<1> DEFINE setting == IF c = NoConfig THEN disk ELSE c
           fresh   == [Down EXCEPT !.pc = "idle", !.setting = setting, !.named = c]
           live    == daemon[endpoint].config
           found   == [Attached(endpoint, fresh) EXCEPT !.setting = live]
           renamed == [found EXCEPT !.setting = c]
<1>0. \/ gui' \in {fresh, Begin("start", setting, fresh)} /\ monitors' = {}
      \/ /\ endpoint # NoOne /\ Answers(endpoint)
         /\ monitors' = {Monitor(endpoint, found)}
         /\ IF c \notin {NoConfig, live} THEN gui' = Begin("start", c, renamed) ELSE gui' = found
  BY Zenon DEF Launch
<1>00. daemon' = daemon
  BY Zenon DEF Launch, daemonVars
<1>1. CASE gui' \in {fresh, Begin("start", setting, fresh)} /\ monitors' = {}
  <2>1. gui' \in {fresh, Begin("start", setting, fresh)} /\ monitors' = {}
    BY <1>1
  <2>2. /\ fresh \in GuiRec /\ fresh.pc = "idle" /\ fresh.job = "none" /\ fresh.running = NoOne
        /\ setting \in Configs
    BY DownTyped DEF Down
  <2> HIDE DEF fresh, setting
  <2>3. LET b == Begin("start", setting, fresh)
        IN  b.pc = "check" /\ b.job = "start" /\ b.running = NoOne /\ b.target = b.setting
    <3> SUFFICES fresh.setting = setting
      BY <2>2 DEF Begin
    <3> QED BY DownTyped DEF fresh, setting, Down
  <2>4. CASE gui' = fresh
    BY <2>1, <2>2, <2>4 DEF ControlInv, Believes, Aimed, Busy, Watches
  <2>5. CASE gui' = Begin("start", setting, fresh)
    BY <2>1, <2>3, <2>5 DEF ControlInv, Believes, Aimed, Busy, Watches
  <2> QED BY <2>1, <2>4, <2>5
<1>2. CASE /\ endpoint # NoOne /\ Answers(endpoint)
            /\ monitors' = {Monitor(endpoint, found)}
            /\ IF c \notin {NoConfig, live} THEN gui' = Begin("start", c, renamed) ELSE gui' = found
  <2>1. /\ monitors' = {Monitor(endpoint, found)} /\ daemon' = daemon
        /\ gui' = found \/ gui' = Begin("start", c, renamed)
    <3> HIDE DEF fresh, found, renamed, live, setting
    <3> QED BY <1>00, <1>2
  <2>2. endpoint \in Daemons /\ live \in Configs /\ daemon[endpoint].stage = "serving"
    BY <1>2, ConfigTyped DEF DaemonTypeOK, Answers, At
  <2>3. Settled(daemon[endpoint])
    BY <2>2 DEF Settled
  <2>4. /\ fresh \in GuiRec /\ fresh.pc = "idle" /\ fresh.job = "none" /\ fresh.named = c
        /\ fresh.generation = 0
    BY DownTyped DEF Down
  <2> HIDE DEF fresh, setting, live
  <2> DEFINE a == Attached(endpoint, fresh)
  <2>5. a = [fresh EXCEPT !.running = endpoint, !.generation = 1, !.phase = "running", !.missed = FALSE]
    BY <2>4 DEF Attached
  <2> HIDE DEF a
  <2>6. found = [a EXCEPT !.setting = live]
    BY DEF a
  <2>7. /\ a \in GuiRec /\ a.running = endpoint /\ a.phase = "running" /\ a.pc = "idle"
        /\ a.job = "none" /\ a.named = c /\ a.generation = 1
    BY <2>2, <2>4, <2>5
  <2> HIDE DEF found
  <2>8. /\ found \in GuiRec /\ found.running = endpoint /\ found.phase = "running"
        /\ found.pc = "idle" /\ found.job = "none" /\ found.named = c /\ found.setting = live
        /\ found.generation = 1
    BY <2>2, <2>6, <2>7
  <2>9. LET b == Begin("start", c, renamed)
        IN  /\ b.pc = "check" /\ b.job = "start" /\ b.target = c /\ b.setting = c /\ b.named = c
            /\ b.running = endpoint /\ b.phase = "running" /\ b.generation = 1
    BY <2>8 DEF Begin
  <2>10. Believes(found, daemon) /\ Believes(Begin("start", c, renamed), daemon)
    BY <2>2, <2>3, <2>8, <2>9 DEF Believes, Aimed, Busy, live
  <2>11. gui'.generation = 1 /\ gui'.running = endpoint
    BY <2>1, <2>8, <2>9
  <2>12. Monitor(endpoint, found) = [of |-> endpoint, generation |-> 1, lost |-> FALSE]
    BY <2>8 DEF Monitor
  <2>13. Watches(monitors', gui', daemon')
    <3>1. monitors' = {[of |-> endpoint, generation |-> 1, lost |-> FALSE]} /\ daemon' = daemon
      BY <2>1, <2>12
    <3> QED BY <2>3, <2>11, <3>1 DEF Watches
  <2>14. Believes(gui', daemon')
    BY <2>1, <2>10
  <2> QED BY <2>13, <2>14 DEF ControlInv
<1> HIDE DEF fresh, found, renamed, live, setting
<1> QED BY <1>0, <1>1, <1>2

LEMMA CommandKeeps ==
    ASSUME TypeOK, ControlInv,
           \/ Start \/ Stop \/ SavePreferences
           \/ \E c \in Configs : Switch(c) \/ SecondLaunch(c)
           \/ \E keep \in BOOLEAN : Quit(keep)
    PROVE  ControlInv'
<1>0. /\ GuiTyped /\ monitors \subseteq MonitorRec /\ Believes(gui, daemon)
      /\ Watches(monitors, gui, daemon) /\ daemon' = daemon
  BY DEF TypeOK, MonitorRec, ControlInv, Start, Stop, SavePreferences, Switch, SecondLaunch, Quit,
         daemonVars
<1>1. CASE Start
  <2>1. /\ gui' = Begin("start", gui.setting, gui) /\ monitors' = monitors
        /\ gui.pc = "idle"
    BY <1>1 DEF Start, Idle
  <2>2. /\ gui'.generation = gui.generation /\ gui'.running = gui.running /\ gui'.missed = gui.missed
        /\ gui' \in GuiRec
    BY <1>0, <2>1 DEF Begin, Coherent
  <2> QED BY <1>0, <2>1, <2>2, BeginBelieves, WatchesLess DEF ControlInv
<1>2. CASE Stop
  <2>1. /\ gui' = [gui EXCEPT !.pc = "ask", !.job = "stop"] /\ monitors' = monitors
        /\ gui.pc = "idle"
    BY <1>2 DEF Stop, Idle
  <2>2. Believes(gui', daemon)
    BY <1>0, <2>1 DEF Believes, Aimed
  <2>3. Watches(monitors', gui', daemon)
    BY <1>0, <2>1 DEF Watches
  <2> QED BY <1>0, <2>2, <2>3 DEF ControlInv
<1>3. CASE SavePreferences \/ \E c \in Configs : SecondLaunch(c)
  BY <1>0, <1>3 DEF SavePreferences, SecondLaunch, ControlInv
<1>5. ASSUME NEW c \in Configs, Switch(c) PROVE ControlInv'
  <2>1. monitors' = monitors /\ gui.pc = "idle"
    BY <1>5 DEF Switch, Idle
  <2>2. CASE gui.running = NoOne
    <3>1. gui' = [gui EXCEPT !.setting = c, !.named = NoConfig]
      BY <1>5, <2>2 DEF Switch
    <3>2. Believes(gui', daemon)
      BY <1>0, <2>1, <2>2, <3>1 DEF Believes, Aimed, Busy
    <3>3. Watches(monitors', gui', daemon)
      BY <1>0, <2>1, <3>1 DEF Watches
    <3> QED BY <1>0, <3>2, <3>3 DEF ControlInv
  <2>3. CASE gui.running # NoOne
    <3> DEFINE old == daemon[gui.running].config
    <3>1. old \in Configs
      BY <1>0, <2>3, ConfigTyped DEF TypeOK
    <3>2. gui' = [Begin("switch", c, gui) EXCEPT !.previous = old]
      BY <1>5, <2>3 DEF Switch
    <3> HIDE DEF old
    <3>3. /\ gui'.pc = "check" /\ gui'.job = "switch" /\ gui'.previous = old
          /\ gui'.running = gui.running /\ gui'.setting = gui.setting /\ gui'.named = gui.named
          /\ gui'.phase = gui.phase /\ gui'.generation = gui.generation /\ gui'.missed = gui.missed
      BY <1>0, <3>1, <3>2 DEF Begin
    <3>4. Believes(gui', daemon)
      BY <1>0, <2>1, <2>3, <3>3 DEF Believes, Aimed, Busy, old
    <3>5. Watches(monitors', gui', daemon)
      BY <1>0, <2>1, <3>3 DEF Watches
    <3> QED BY <1>0, <3>4, <3>5 DEF ControlInv
  <2> QED BY <2>2, <2>3
<1>6. ASSUME NEW keep \in BOOLEAN, Quit(keep) PROVE ControlInv'
  <2>1. CASE keep \/ gui.running = NoOne
    <3>1. gui' \in {Down, [Down EXCEPT !.job = "quit"]} /\ monitors' = {}
      BY <1>6, <2>1 DEF Quit
    <3> QED BY <3>1 DEF Down, ControlInv, Believes, Aimed, Busy, Watches
  <2>2. CASE ~(keep \/ gui.running = NoOne)
    <3>1. /\ gui' = [gui EXCEPT !.pc = "ask", !.job = "quit"] /\ monitors' = monitors
          /\ gui.pc = "idle"
      BY <1>6, <2>2 DEF Quit
    <3>2. Believes(gui', daemon)
      BY <1>0, <3>1 DEF Believes, Aimed
    <3>3. Watches(monitors', gui', daemon)
      BY <1>0, <3>1 DEF Watches
    <3> QED BY <1>0, <3>2, <3>3 DEF ControlInv
  <2> QED BY <2>1, <2>2
<1> QED BY <1>1, <1>2, <1>3, <1>5, <1>6

LEMMA KillKeeps == Kill => ControlInv'
  BY DEF Kill, Down, ControlInv, Believes, Aimed, Busy, Watches

\* A generation ends with its daemon: the monitors left are of earlier ones.
LEMMA StoppedKeeps ==
    ASSUME TypeOK, NEW D, Believes(gui, D), Watches(monitors, gui, D),
           gui.pc \in {"ask", "wait"}, Stopped
    PROVE  Believes(gui', D) /\ Watches(monitors', gui', D)
<1>0. GuiTyped /\ monitors \subseteq MonitorRec
  BY DEF TypeOK, MonitorRec
<1> DEFINE n    == gui.generation + 1
           free == [gui EXCEPT !.running = NoOne, !.generation = n, !.phase = "stopped", !.missed = FALSE]
<1>1. n \in Nat /\ n > gui.generation
  BY <1>0
<1> HIDE DEF n
<1>2. /\ free \in GuiRec /\ free.running = NoOne /\ free.phase = "stopped" /\ free.generation = n
      /\ free.job = gui.job /\ free.setting = gui.setting /\ free.named = gui.named
      /\ free.target = gui.target /\ free.previous = gui.previous
  BY <1>0, <1>1
<1>3. \/ gui.job = "stop" /\ gui' = Done(free) /\ monitors' = {m \in monitors : m.lost}
      \/ gui.job = "quit" /\ gui' = [Down EXCEPT !.job = "quit"] /\ monitors' = {}
      \/ /\ gui.job \notin {"stop", "quit"} /\ gui' = [free EXCEPT !.pc = "fork"]
         /\ monitors' = {m \in monitors : m.lost}
  <2>1. CASE gui.job = "stop"
    BY <2>1 DEF Stopped, n
  <2>2. CASE gui.job = "quit"
    BY <2>2 DEF Stopped
  <2>3. CASE gui.job \notin {"stop", "quit"}
    BY <2>3 DEF Stopped, n
  <2> QED BY <2>1, <2>2, <2>3
<1> HIDE DEF free
<1>4. CASE gui.job = "stop"
  <2>1. gui' = Done(free) /\ monitors' = {m \in monitors : m.lost}
    BY <1>3, <1>4
  <2>2. /\ gui'.pc = "idle" /\ gui'.job = "stop" /\ gui'.running = NoOne /\ gui'.generation = n
        /\ gui' \in GuiRec
    BY <1>2, <1>4, <2>1, SameGeneration
  <2>3. Believes(gui', D)
    BY <2>2 DEF Believes, Aimed, Busy
  <2>4. Watches(monitors', gui', D)
    BY <1>0, <1>1, <2>1, <2>2, WatchesLess
  <2> QED BY <2>3, <2>4
<1>5. CASE gui.job = "quit"
  BY <1>3, <1>5 DEF Down, Believes, Aimed, Busy, Watches
<1>6. CASE gui.job \notin {"stop", "quit"}
  <2>1. gui' = [free EXCEPT !.pc = "fork"] /\ monitors' = {m \in monitors : m.lost}
    BY <1>3, <1>6
  <2>2. /\ gui' \in GuiRec /\ gui'.pc = "fork" /\ gui'.running = NoOne /\ gui'.generation = n
        /\ gui'.job = gui.job /\ gui'.setting = gui.setting /\ gui'.named = gui.named
        /\ gui'.target = gui.target /\ gui'.previous = gui.previous
    BY <1>2, <2>1
  <2>3. Believes(gui', D)
    BY <2>2 DEF Believes, Aimed, Busy
  <2>4. Watches(monitors', gui', D)
    BY <1>0, <1>1, <2>1, <2>2, WatchesLess
  <2> QED BY <2>3, <2>4
<1> QED BY <1>4, <1>5, <1>6

\* A command fails, of which there is a cause on record, or with no daemon.
LEMMA FailureKeeps ==
    ASSUME TypeOK, NEW D, Believes(gui, D), Watches(monitors, gui, D), Busy(gui),
           NEW f, AsFailed(gui, f), gui.running # NoOne => f.missed,
           monitors' = monitors,
           gui' = TryFailed(f) \/ (gui' = Done(f) /\ gui.job # "switch")
    PROVE  Believes(gui', D) /\ Watches(monitors', gui', D)
<1>0. gui \in GuiRec /\ monitors \subseteq MonitorRec
  BY DEF TypeOK, MonitorRec
<1>1. /\ f \in GuiRec /\ Believes(f, D) /\ f.pc = gui.pc /\ f.job = gui.job
      /\ f.running = gui.running /\ f.generation = gui.generation
  BY <1>0, PhaseBelieves DEF AsFailed
<1>2. /\ gui' \in GuiRec /\ gui'.generation = gui.generation /\ gui'.running = gui.running
      /\ gui'.missed = f.missed
  BY <1>1, SameGeneration
<1>3. Believes(gui', D)
  BY <1>1, FailBelieves, DoneBelieves DEF Busy
<1>4. Watches(monitors', gui', D)
  BY <1>0, <1>2, WatchesLess
<1> QED BY <1>3, <1>4

LEMMA CheckKeeps ==
    ASSUME TypeOK, ControlInv, Check
    PROVE  ControlInv'
<1>0. /\ GuiTyped /\ monitors \subseteq MonitorRec /\ Believes(gui, daemon)
      /\ Watches(monitors, gui, daemon) /\ daemon' = daemon /\ monitors' = monitors
      /\ gui.pc = "check" /\ Busy(gui)
  BY DEF TypeOK, MonitorRec, ControlInv, Check, daemonVars, Busy
<1>1. CASE gui.target \in usable
  <2>1. gui' = [gui EXCEPT !.pc = IF gui.running = NoOne THEN "fork" ELSE "ask"]
    BY <1>1 DEF Check
  <2>2. Believes(gui', daemon)
    BY <1>0, <2>1 DEF Believes, Aimed, Busy
  <2>3. Watches(monitors', gui', daemon)
    BY <1>0, <2>1 DEF Watches
  <2> QED BY <1>0, <2>2, <2>3 DEF ControlInv
<1>2. CASE gui.target \notin usable /\ gui.phase = "running"
  <2>1. gui' = TryFailed(gui)
    <3>1. Check /\ gui \in GuiRec
      BY <1>0
    <3> QED BY <1>2, <3>1 DEF Check
  <2>2. /\ gui' \in GuiRec /\ gui'.generation = gui.generation /\ gui'.running = gui.running
        /\ gui'.missed = gui.missed
    BY <1>0, <2>1, SameGeneration
  <2> QED BY <1>0, <2>1, <2>2, FailBelieves, WatchesLess DEF ControlInv
<1>3. CASE gui.target \notin usable /\ gui.phase # "running"
  <2> DEFINE f == [gui EXCEPT !.phase = "failed"]
  <2>1. gui' = TryFailed(f)
    BY <1>3 DEF Check
  <2>2. gui.running # NoOne => gui.missed
    BY <1>0, <1>3 DEF Coherent, Believes
  <2>3. AsFailed(gui, f) /\ f.missed = gui.missed
    BY <1>0, FailsAlone
  <2> HIDE DEF f
  <2> QED BY <1>0, <2>1, <2>2, <2>3, FailureKeeps DEF ControlInv
<1> QED BY <1>1, <1>2, <1>3

\* Asking the daemon, and its answers.
LEMMA AskKeeps ==
    ASSUME TypeOK, ControlInv, Next,
           AskRefused \/ AskFails \/ AskSent \/ Answered \/ Unanswered
    PROVE  ControlInv'
<1>0. /\ GuiTyped /\ gui.pc \in {"ask", "wait"} /\ Busy(gui) /\ gui.running \in Daemons
      /\ Believes(gui, daemon') /\ Watches(monitors, gui, daemon')
  <2>1. GuiTyped /\ gui.pc \in {"ask", "wait"}
    BY DEF TypeOK, AskRefused, AskFails, AskSent, Answered, Unanswered
  <2> QED BY <2>1, StillBelieves DEF Busy, Coherent
<1>1. CASE Stopped
  BY <1>0, <1>1, StoppedKeeps DEF ControlInv
<1>2. CASE NotStopped
  <2>1. PICK f : /\ AsFailed(gui, f) /\ f.missed /\ monitors' = monitors
                 /\ gui' = TryFailed(f) \/ (gui' = Done(f) /\ gui.job # "switch")
    BY <1>0, <1>2, NotStoppedShape
  <2> QED BY <1>0, <2>1, FailureKeeps DEF ControlInv
<1>3. CASE AskSent
  <2>1. gui' = [gui EXCEPT !.pc = "wait"] /\ monitors' = monitors
    BY <1>3 DEF AskSent
  <2>2. gui.pc = "ask"
    BY <1>3 DEF AskSent
  <2>3. Believes(gui', daemon')
    BY <1>0, <2>1, <2>2 DEF Believes, Aimed, Busy
  <2>4. Watches(monitors', gui', daemon')
    BY <1>0, <2>1 DEF Watches
  <2> QED BY <2>3, <2>4 DEF ControlInv
<1> QED BY <1>1, <1>2, <1>3 DEF AskRefused, AskFails, Answered, Unanswered

LEMMA ForkKeeps ==
    ASSUME TypeOK, ControlInv, Next, ForkDaemon
    PROVE  ControlInv'
<1>0. /\ GuiTyped /\ gui.pc = "fork" /\ Busy(gui) /\ monitors' = monitors
      /\ Believes(gui, daemon') /\ Watches(monitors, gui, daemon')
  BY StillBelieves DEF TypeOK, ForkDaemon, Busy
<1>1. PICK d \in Daemons : Fork(d, gui.target) /\ gui' = [gui EXCEPT !.pc = "poll", !.child = d]
  BY DEF ForkDaemon
<1>2. daemon'[d].config = gui.target
  BY <1>1 DEF Fork, TypeOK, DaemonTypeOK
<1>3. /\ gui'.pc = "poll" /\ gui'.child = d /\ gui'.job = gui.job /\ gui'.running = gui.running
      /\ gui'.setting = gui.setting /\ gui'.named = gui.named /\ gui'.target = gui.target
      /\ gui'.previous = gui.previous /\ gui'.generation = gui.generation /\ gui'.missed = gui.missed
  BY <1>0, <1>1
<1>4. Believes(gui', daemon')
  BY <1>0, <1>2, <1>3 DEF Believes, Aimed, Busy
<1>5. Watches(monitors', gui', daemon')
  BY <1>0, <1>3 DEF Watches
<1> QED BY <1>4, <1>5 DEF ControlInv

\* The new daemon is attached: for it the app is in a new generation.
LEMMA ReadyKeeps ==
    ASSUME TypeOK, ControlInv, Ready
    PROVE  ControlInv'
<1>0. /\ GuiTyped /\ gui.pc = "poll" /\ Busy(gui) /\ monitors \subseteq MonitorRec
      /\ Believes(gui, daemon) /\ Watches(monitors, gui, daemon) /\ daemon' = daemon
      /\ gui.child \in Daemons /\ gui.running = NoOne /\ daemon[gui.child].stage = "serving"
      /\ gui.job \in {"start", "switch", "restore"}
  BY DEF TypeOK, MonitorRec, ControlInv, Believes, Ready, Answers, At, daemonVars, Busy, Coherent
<1> DEFINE n        == gui.generation + 1
           attached == Attached(gui.child, gui)
           switched == [attached EXCEPT !.setting = gui.target, !.named = NoConfig]
<1>1. n \in Nat /\ n > gui.generation
  BY <1>0
<1> HIDE DEF n
<1>2. attached = [gui EXCEPT !.running = gui.child, !.generation = n, !.phase = "running", !.missed = FALSE]
  BY DEF Attached, n
<1>3. /\ gui' = Done(IF gui.job = "switch" THEN switched ELSE attached)
      /\ monitors' = monitors \cup {Monitor(gui.child, attached)}
  BY DEF Ready
<1> HIDE DEF attached
<1>4. /\ attached \in GuiRec /\ attached.running = gui.child /\ attached.phase = "running"
      /\ attached.generation = n /\ attached.setting = gui.setting /\ attached.named = gui.named
      /\ attached.job = gui.job
  BY <1>0, <1>1, <1>2
<1>5. /\ switched \in GuiRec /\ switched.running = gui.child /\ switched.phase = "running"
      /\ switched.generation = n /\ switched.setting = gui.target
  BY ZenonT(60), <1>0, <1>4
<1> HIDE DEF switched
<1>6. /\ gui'.pc = "idle" /\ gui'.running = gui.child /\ gui'.generation = n /\ gui'.phase = "running"
  <2>1. CASE gui.job = "switch"
    BY <1>3, <1>5, <2>1, DoneFields, SameGeneration
  <2>2. CASE gui.job # "switch"
    BY <1>3, <1>4, <2>2, DoneFields, SameGeneration
  <2> QED BY <2>1, <2>2
<1>7. gui'.setting \in {daemon[gui.child].config, gui'.named}
  <2>1. daemon[gui.child].config = gui.target
    BY <1>0 DEF Believes
  <2>2. CASE gui.job = "switch"
    BY <1>3, <1>5, <2>1, <2>2, DoneFields
  <2>3. CASE gui.job # "switch"
    <3>1. gui' = Done(attached)
      BY <1>3, <2>3
    <3>2. gui'.setting = gui.setting /\ gui'.named = gui.named
      BY <1>4, <3>1 DEF Done
    <3>3. gui.setting \in {gui.target, gui.named}
      BY <1>0, <2>3 DEF Believes, Aimed
    <3> QED BY <2>1, <3>2, <3>3
  <2> QED BY <2>2, <2>3
<1>8. Settled(daemon[gui.child])
  BY <1>0 DEF Settled
<1>9. Believes(gui', daemon')
  BY <1>0, <1>6, <1>7, <1>8 DEF Believes, Aimed, Busy
<1>10. Watches(monitors', gui', daemon')
  <2>1. Monitor(gui.child, attached) = [of |-> gui.child, generation |-> n, lost |-> FALSE]
    BY <1>4 DEF Monitor
  <2>2. ASSUME NEW m \in monitors
        PROVE  Settled(daemon[m.of]) /\ m.generation < n
    <3>1. m \in MonitorRec /\ m.generation <= gui.generation
      BY <1>0 DEF Watches
    <3> QED BY <1>0, <1>1, <3>1 DEF Watches, MonitorRec
  <2>3. ASSUME NEW m \in monitors'
        PROVE  /\ Settled(daemon[m.of])
               /\ m.generation <= n
               /\ m.generation = n => m.of = gui.child /\ ~m.lost
    <3>1. CASE m \in monitors
      <4>1. m.generation \in Nat
        BY <1>0, <3>1 DEF MonitorRec
      <4> QED BY <1>1, <2>2, <3>1, <4>1
    <3>2. CASE m = [of |-> gui.child, generation |-> n, lost |-> FALSE]
      BY <1>1, <1>8, <3>2
    <3> QED BY <1>3, <2>1, <3>1, <3>2
  <2> QED BY <1>0, <1>6, <2>3 DEF Watches
<1> QED BY <1>9, <1>10 DEF ControlInv

LEMMA StartFailedKeeps ==
    ASSUME TypeOK, ControlInv, Next, ForkFails \/ ChildEnded \/ GiveUp
    PROVE  ControlInv'
<1> DEFINE f == [gui EXCEPT !.phase = "failed"]
<1>1. /\ Believes(gui, daemon') /\ Watches(monitors, gui, daemon')
      /\ gui.pc \in {"fork", "poll"} /\ Busy(gui) /\ monitors' = monitors
      /\ gui' = TryFailed(f)
  BY StillBelieves DEF ForkFails, ChildEnded, GiveUp, StartFailed, Busy
<1>2. gui.running = NoOne
  BY <1>1 DEF Believes
<1>3. AsFailed(gui, f)
  BY FailsAlone DEF TypeOK
<1> HIDE DEF f
<1> QED BY <1>1, <1>2, <1>3, FailureKeeps DEF ControlInv

\* A monitor that reports in its own generation speaks of the attached daemon.
LEMMA WatchKeeps ==
    ASSUME TypeOK, ControlInv, Watch
    PROVE  ControlInv'
<1>0. /\ GuiTyped /\ monitors \subseteq MonitorRec /\ Believes(gui, daemon)
      /\ Watches(monitors, gui, daemon)
  BY DEF TypeOK, MonitorRec, ControlInv
<1>1. PICK m \in monitors : MonitorLoses(m) \/ MonitorReports(m)
  BY DEF Watch
<1>2. CASE MonitorLoses(m)
  <2> DEFINE l == [m EXCEPT !.lost = TRUE]
  <2>1. /\ daemon' = daemon /\ monitors' = (monitors \ {m}) \cup {l}
        /\ gui' = [gui EXCEPT !.missed = gui.missed \/ m.of = gui.running]
    BY <1>2 DEF MonitorLoses, daemonVars
  <2>2. l.of = m.of /\ l.generation = m.generation
    BY <1>0 DEF MonitorRec
  <2> HIDE DEF l
  <2> DEFINE known == gui.missed \/ m.of = gui.running
  <2>3. gui' = [gui EXCEPT !.missed = known]
    BY <2>1
  <2>4. /\ gui'.missed = known /\ gui'.running = gui.running /\ gui'.generation = gui.generation
        /\ gui'.pc = gui.pc /\ gui'.job = gui.job /\ gui'.phase = gui.phase /\ gui'.child = gui.child
        /\ gui'.setting = gui.setting /\ gui'.target = gui.target /\ gui'.previous = gui.previous
        /\ gui'.named = gui.named
    BY <1>0, <2>3
  <2>5. gui.missed => known
    OBVIOUS
  <2>6. m.of = gui.running => known
    OBVIOUS
  <2> HIDE DEF known
  <2>7. Believes(gui', daemon)
    BY <1>0, <2>4, <2>5 DEF Believes, Aimed, Busy
  <2>8. Watches(monitors', gui', daemon)
    <3>1. ASSUME NEW x \in monitors, x.generation = gui.generation, gui.running # NoOne
          PROVE  x.of = gui.running /\ (x.lost => known)
      BY <1>0, <2>5, <3>1 DEF Watches
    <3>2. ASSUME NEW x \in monitors'
          PROVE  \E y \in monitors : /\ x.of = y.of /\ x.generation = y.generation
                                     /\ x = y \/ (y = m /\ x = l)
      BY <2>1, <2>2
    <3>3. ASSUME NEW x \in monitors'
          PROVE  Settled(daemon[x.of]) /\ x.generation <= gui.generation
      BY <1>0, <3>2 DEF Watches
    <3>4. ASSUME NEW x \in monitors', x.generation = gui.generation, gui.running # NoOne
          PROVE  x.of = gui.running /\ (x.lost => known)
      BY <2>6, <3>1, <3>2, <3>4
    <3> QED BY <2>4, <3>3, <3>4 DEF Watches
  <2> QED BY <2>1, <2>7, <2>8 DEF ControlInv
<1>3. CASE MonitorReports(m)
  <2>1. /\ daemon' = daemon /\ monitors' \subseteq monitors /\ m.lost
        /\ gui' = [gui EXCEPT !.phase = IF m.generation = gui.generation THEN "failed" ELSE @]
    BY <1>3 DEF MonitorReports, daemonVars
  <2>2. CASE m.generation = gui.generation
    <3>1. gui.running # NoOne => gui.missed
      BY <1>0, <2>1, <2>2 DEF Watches
    <3>2. gui' = [gui EXCEPT !.phase = "failed"]
      BY <2>1, <2>2
    <3>3. AsFailed(gui, gui') /\ gui'.missed = gui.missed
      BY <1>0, <3>2, FailsAlone
    <3>4. /\ gui' \in GuiRec /\ Believes(gui', daemon)
          /\ gui'.running = gui.running /\ gui'.generation = gui.generation
      BY <1>0, <3>1, <3>3, PhaseBelieves DEF AsFailed
    <3> QED BY <1>0, <2>1, <3>3, <3>4, WatchesLess DEF ControlInv
  <2>3. CASE m.generation # gui.generation
    <3>1. gui' = gui
      BY <1>0, <2>1, <2>3
    <3>2. Watches(monitors', gui, daemon)
      BY <1>0, <2>1 DEF Watches
    <3> QED BY <1>0, <2>1, <3>1, <3>2 DEF ControlInv
  <2> QED BY <2>2, <2>3
<1> QED BY <1>1, <1>2, <1>3

LEMMA NextControls == TypeOK /\ ControlInv /\ [Next]_vars => ControlInv'
<1> SUFFICES ASSUME TypeOK, ControlInv, [Next]_vars PROVE ControlInv'
  OBVIOUS
<1>1. CASE UNCHANGED vars
  BY <1>1 DEF vars, daemonVars, ControlInv
<1>2. CASE Next
  <2>1. CASE World
    BY <1>2, <2>1, StillBelieves DEF World, guiVars, ControlInv
  <2>2. CASE Command \/ Kill \/ \E c \in Configs : SecondLaunch(c)
    BY <2>2, LaunchKeeps, CommandKeeps, KillKeeps DEF Command, TypeOK
  <2>3. CASE Progress
    BY <1>2, <2>3, CheckKeeps, AskKeeps, ForkKeeps, ReadyKeeps, StartFailedKeeps DEF Progress
  <2>4. CASE Watch
    BY <2>4, WatchKeeps
  <2> QED BY <1>2, <2>1, <2>2, <2>3, <2>4 DEF Next
<1> QED BY <1>1, <1>2

LEMMA ControlSound == Spec => [](TypeOK /\ ControlInv)
<1>1. Init => ControlInv
  BY DEF Init, Down, ControlInv, Believes, Aimed, Busy, Watches
<1> QED BY <1>1, InitAll, StepKeepsTypes, NextControls, PTL DEF Spec

\* Every failure that the app shows of an attached daemon has a cause in a
\* request to that very daemon: whatever the daemons answer and whenever, no
\* monitor of an earlier generation and no earlier command condemns it.
THEOREM FailuresHaveCause == Spec => []FailureHasCause
<1>1. ControlInv => FailureHasCause
  BY DEF ControlInv, Believes, FailureHasCause
<1> QED BY <1>1, ControlSound, PTL

\* Between commands the attached daemon runs the configuration of the
\* settings, or the settings are what the user named at launch.
THEOREM SettingsAreLive == Spec => []SettingIsLive
<1>1. ControlInv => SettingIsLive
  BY DEF ControlInv, Believes, SettingIsLive
<1> QED BY <1>1, ControlSound, PTL

\* A switch does not end without a daemon while it can still bring the old
\* one back.
THEOREM SwitchesKeepControl == Spec => []SwitchKeepsControl
<1>1. ControlInv => SwitchKeepsControl
  BY DEF ControlInv, Believes, SwitchKeepsControl
<1> QED BY <1>1, ControlSound, PTL

\* A stop that fails gives up no control.
LEMMA NotStoppedRuns ==
    ASSUME GuiTyped, gui.pc \in {"ask", "wait"}, NotStopped
    PROVE  gui'.running = gui.running
<1>1. PICK f : AsFailed(gui, f) /\ gui' \in {TryFailed(f), Done(f)}
  BY NotStoppedShape
<1> QED BY <1>1, SameGeneration DEF AsFailed

\* Control of a stopped daemon ends only when its port is closed: it was
\* attached while it served, so whichever way its end was learnt, it has
\* passed the point where its listener is dropped.
THEOREM PortFreeAfterStop == Spec => OldListenerClosed
<1>1. TypeOK /\ ControlInv /\ (\A d \in Daemons : Released(d)) /\ [Next]_vars =>
        [\A d \in Daemons :
            d = gui.running /\ gui'.running = NoOne /\ gui'.phase = "stopped" /\ gui'.pc # "down"
                => ~Listening(d)]_vars
  <2> SUFFICES ASSUME TypeOK, ControlInv, \A e \in Daemons : Released(e), Next,
                      NEW d \in Daemons, d = gui.running,
                      gui'.running = NoOne, gui'.phase = "stopped", gui'.pc # "down"
               PROVE  ~Listening(d)
    BY DEF vars
  <2>1. Settled(daemon[d]) /\ gui.pc # "down" /\ GuiTyped
    BY DEF ControlInv, Believes, TypeOK
  <2>2. CASE AskRefused
    BY <2>1, <2>2 DEF AskRefused, Refuses, Settled, Listening
  <2>3. CASE Answered
    <3>1. CASE daemon[d].reply = "stopped"
      BY <2>1, <3>1 DEF Released, At, Settled, Listening
    <3>2. CASE daemon[d].reply # "stopped"
      <4>1. NotStopped
        BY <2>3, <3>2 DEF Answered
      <4> QED BY <2>1, <2>3, <4>1, NotStoppedRuns DEF Answered
    <3> QED BY <3>1, <3>2
  <2>4. CASE Kill \/ \E keep \in BOOLEAN : Quit(keep)
    <3>1. gui'.pc = "down" \/ gui'.running = gui.running
      <4>1. CASE Kill
        BY <4>1 DEF Kill, Down
      <4>2. ASSUME NEW keep \in BOOLEAN, Quit(keep)
            PROVE  gui' \in {Down, [Down EXCEPT !.job = "quit"], [gui EXCEPT !.pc = "ask", !.job = "quit"]}
        BY <4>2 DEF Quit
      <4>3. Down.pc = "down" /\ [Down EXCEPT !.job = "quit"].pc = "down"
        BY DEF Down
      <4>4. [gui EXCEPT !.pc = "ask", !.job = "quit"].running = gui.running
        BY <2>1
      <4> QED BY <2>4, <4>1, <4>2, <4>3, <4>4
    <3> QED BY <3>1
  <2>5. CASE Start \/ Stop \/ SavePreferences \/ \E c \in Configs : Switch(c) \/ SecondLaunch(c)
    <3>1. CASE Start \/ Stop \/ SavePreferences \/ \E c \in Configs : SecondLaunch(c)
      <4>1. Start => gui' = Begin("start", gui.setting, gui) /\ gui.pc = "idle"
        BY DEF Start, Idle
      <4>2. Stop => gui' = [gui EXCEPT !.pc = "ask", !.job = "stop"]
        BY DEF Stop
      <4>3. SavePreferences \/ (\E c \in Configs : SecondLaunch(c)) => gui' = gui
        BY DEF SavePreferences, SecondLaunch
      <4>4. Start => gui'.running = gui.running
        BY <2>1, <4>1, BeginFields DEF Coherent
      <4> QED BY <2>1, <3>1, <4>2, <4>3, <4>4
    <3>2. ASSUME NEW c \in Configs, Switch(c) PROVE gui'.running = gui.running
      <4>1. \/ gui' = [gui EXCEPT !.setting = c, !.named = NoConfig]
            \/ gui' = [Begin("switch", c, gui) EXCEPT !.previous = daemon[gui.running].config]
        BY <3>2 DEF Switch
      <4>2. Begin("switch", c, gui) \in GuiRec /\ Begin("switch", c, gui).running = gui.running
        BY <2>1, BeginFields
      <4> QED BY <2>1, <4>1, <4>2
    <3> QED BY <2>5, <3>1, <3>2
  <2>6. CASE \/ \E c \in Configs \cup {NoConfig} : Launch(c)
             \/ ForkDaemon \/ ForkFails \/ Ready \/ ChildEnded \/ GiveUp
    <3>1. gui.pc \in {"down", "fork", "poll"}
      BY <2>6 DEF Launch, ForkDaemon, ForkFails, Ready, ChildEnded, GiveUp
    <3> QED BY <3>1 DEF ControlInv, Believes
  <2>7. CASE Check \/ AskSent
    <3> DEFINE failed == [gui EXCEPT !.phase = "failed"]
    <3>1. failed \in GuiRec /\ failed.running = gui.running
      BY <2>1
    <3>2. CASE AskSent \/ (Check /\ gui.target \in usable)
      BY <2>1, <3>2 DEF AskSent, Check
    <3>3. CASE Check /\ gui.target \notin usable /\ gui.phase = "running"
      <4>1. gui' = TryFailed(gui)
        BY <2>1, <3>3 DEF Check
      <4> QED BY <2>1, <4>1, SameGeneration
    <3>4. CASE Check /\ gui.target \notin usable /\ gui.phase # "running"
      <4>1. gui' = TryFailed(failed)
        BY <3>4 DEF Check
      <4> HIDE DEF failed
      <4> QED BY <3>1, <4>1, SameGeneration
    <3> QED BY <2>7, <3>2, <3>3, <3>4
  <2>9. CASE AskFails \/ Unanswered
    BY <2>1, <2>9, NotStoppedRuns DEF AskFails, Unanswered
  <2>8. CASE Watch \/ World
    <3>1. gui'.running = gui.running
      BY <2>1, <2>8 DEF Watch, World, MonitorLoses, MonitorReports, guiVars
    <3> QED BY <3>1
  <2> QED BY <2>2, <2>3, <2>4, <2>5, <2>6, <2>7, <2>8, <2>9 DEF Next, Command, Progress
<1> QED BY <1>1, ControlSound, AnsweredReleased, ControlledDaemons, PTL DEF Spec, OldListenerClosed
=============================================================================
