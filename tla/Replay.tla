------------------------------- MODULE Replay -------------------------------
(***************************************************************************)
(* The replay service driving the ingest pipeline of one match: the        *)
(* commands of the API, the control loop that starts and stops drivers,    *)
(* and the driver threads, each of which clears the match and plays its    *)
(* schedule into the stream.  The pipeline is that of Ingest.              *)
(*                                                                         *)
(* Sources: backend/onside/replay/driver.py, api/routes/ops.py.            *)
(*                                                                         *)
(* The first driver is the one whose _prepare left what Ingest starts      *)
(* with.  Every driver plays the same records: the ids are the feed's.     *)
(***************************************************************************)
EXTENDS Ingest

CONSTANTS
    Driver,         \* driver threads that are ever started
    First,          \* the one that is running at the beginning
    Looping,        \* those that were started with --loop
    Schedule,       \* the records of build_timeline.build, in order
    MaxCommand,     \* bound: commands sent to the API
    MaxDeath        \* bound: deaths of the replay service and of consumers

ASSUME ReplayParameters ==
    /\ First \in Driver
    /\ Looping \subseteq Driver
    /\ Schedule \in Seq(Record)
    /\ MaxCommand \in Nat
    /\ MaxDeath \in Nat

VARIABLES
    stage,      \* per driver: where its thread is
    sent,       \* per driver: how much of the schedule it has put on the stream
    status,     \* replay:state:<id> status
    command,    \* replay:state:<id> command
    control,    \* start commands the control loop will still read
    listening,  \* the control loop: "between" calls, in an "xread", "joining"
    fromNow,    \* last = "$": no command has been read yet
    current,    \* the driver the control loop holds for this match
    commands, kills,    \* how much of each bound is used
    clean       \* history: every clearing found nothing of an old run about

driverVars == <<stage, sent, status, command, control, listening, fromNow, current, commands, kills>>
pipelineVars == <<cursor, pending, leaseVars, memory, budget>>
replayVars == <<vars, driverVars, clean>>

Stage == {"unborn", "clearing", "deleting", "resetting", "starting", "playing", "ticking",
          "resting", "done", "killed"}
Alive(d) == stage[d] \notin {"unborn", "done", "killed"}

ReplayInit ==
    /\ Init
    /\ stage = [d \in Driver |-> IF d = First THEN "starting" ELSE "unborn"]
    /\ sent = [d \in Driver |-> 0]
    /\ status = "none"
    /\ command = ""
    /\ control = 0
    /\ listening = "between"
    /\ fromNow = TRUE
    /\ current = First
    /\ commands = 0 /\ kills = 0
    /\ clean = TRUE

-----------------------------------------------------------------------------
(* The API. *)

\* start: XADD to replay:control.  Before the control loop has read anything
\* it reads from "$", and a command between two of its calls is never seen.
Start ==
    /\ commands < MaxCommand
    /\ commands' = commands + 1
    /\ control' = IF fromNow /\ listening = "between" THEN control ELSE control + 1
    /\ UNCHANGED <<vars, clean, stage, sent, status, command, listening, fromNow, current, kills>>

\* pause, resume and stop set the command field of a replay that has a state.
Command(c) ==
    /\ commands < MaxCommand
    /\ status # "none"
    /\ command' = c
    /\ commands' = commands + 1
    /\ UNCHANGED <<vars, clean, stage, sent, status, control, listening, fromNow, current, kills>>

-----------------------------------------------------------------------------
(* serve: the control loop. *)

Listen ==
    /\ listening = "between"
    /\ listening' = "xread"
    /\ UNCHANGED <<vars, clean, stage, sent, status, command, control, fromNow, current, commands, kills>>

\* XREAD timed out.
HearNothing ==
    /\ listening = "xread"
    /\ control = 0
    /\ listening' = "between"
    /\ UNCHANGED <<vars, clean, stage, sent, status, command, control, fromNow, current, commands, kills>>

Spawn(d) ==
    /\ stage[d] = "unborn"
    /\ stage' = [stage EXCEPT ![d] = "clearing"]
    /\ current' = d

\* A start command: a driver that is still alive is told to stop ...
HearStart ==
    /\ listening = "xread"
    /\ control > 0
    /\ \E d \in Driver \ Looping : stage[d] = "unborn"
    /\ control' = control - 1
    /\ fromNow' = FALSE
    /\ IF Alive(current)
       THEN /\ command' = "stop"
            /\ listening' = "joining"
            /\ UNCHANGED <<stage, current>>
       ELSE /\ \E d \in Driver \ Looping : Spawn(d)
            /\ listening' = "between"
            /\ UNCHANGED command
    /\ UNCHANGED <<vars, clean, sent, status, commands, kills>>

\* ... and given five seconds; then the new one is started, whether or not
\* the old one has ended.
Joined ==
    /\ listening = "joining"
    /\ \E d \in Driver \ Looping : Spawn(d)
    /\ listening' = "between"
    /\ UNCHANGED <<vars, clean, sent, status, command, control, fromNow, commands, kills>>

\* The service dies, its threads with it.  The next one says that no replay is
\* playing, starts those it is told to start by itself, and listens from now.
ServiceRestart ==
    /\ crashes + kills < MaxDeath
    /\ kills' = kills + 1
    /\ LET survivor == [d \in Driver |-> IF Alive(d) THEN "killed" ELSE stage[d]]
       IN  \/ stage' = survivor /\ UNCHANGED current
           \/ \E d \in Driver :
                 /\ stage[d] = "unborn"
                 /\ stage' = [survivor EXCEPT ![d] = "clearing"]
                 /\ current' = d
    /\ IF status \in {"running", "paused"}
       THEN status' = "stopped" /\ command' = ""
       ELSE UNCHANGED <<status, command>>
    /\ control' = 0
    /\ listening' = "between"
    /\ fromNow' = TRUE
    /\ UNCHANGED <<vars, clean, sent, commands>>

-----------------------------------------------------------------------------
(* A driver thread: _prepare and run. *)

Quiet(d) ==
    /\ \A other \in Driver \ {d} : ~Alive(other)
    /\ Settled
    /\ cursor = Len(stream)
    /\ \A c \in Consumer : pc[c] # "polling"

\* Mutant: a replay that starts over goes on from where its schedule ended.
ClearLogKeepsPosition(d) ==
    /\ stage[d] = "clearing"
    /\ slog' = {}
    /\ clean' = (clean /\ Quiet(d))
    /\ stage' = [stage EXCEPT ![d] = "deleting"]
    /\ UNCHANGED <<stream, state, parts, shown, announced, pipelineVars, sent, status, command,
                   control, listening, fromNow, current, commands, kills>>

\* _prepare: clear_log ...
ClearLog(d) ==
    /\ stage[d] = "clearing"
    /\ slog' = {}
    /\ clean' = (clean /\ Quiet(d))
    /\ sent' = [sent EXCEPT ![d] = 0]
    /\ stage' = [stage EXCEPT ![d] = "deleting"]
    /\ UNCHANGED <<stream, state, parts, shown, announced, pipelineVars, status, command,
                   control, listening, fromNow, current, commands, kills>>

\* Mutant: the document of the old history is left.
DeleteMatchLogOnly(d) ==
    /\ stage[d] = "deleting"
    /\ slog' = {}
    /\ stage' = [stage EXCEPT ![d] = "resetting"]
    /\ UNCHANGED <<stream, state, parts, shown, announced, pipelineVars, clean, sent, status,
                   command, control, listening, fromNow, current, commands, kills>>

\* ... delete_match, every item that is left of the match ...
DeleteMatch(d) ==
    /\ stage[d] = "deleting"
    /\ slog' = {}
    /\ state' = NoDoc
    /\ parts' = NoDoc
    /\ stage' = [stage EXCEPT ![d] = "resetting"]
    /\ UNCHANGED <<stream, shown, announced, pipelineVars, clean, sent, status, command,
                   control, listening, fromNow, current, commands, kills>>

\* ... and the reset marker, which tells the owner of the shard.
ProduceReset(d) ==
    /\ stage[d] = "resetting"
    /\ Len(stream) < MaxStream
    /\ stream' = Append(stream, Reset)
    /\ stage' = [stage EXCEPT ![d] = "starting"]
    /\ UNCHANGED <<store, pipelineVars, clean, sent, status, command, control, listening,
                   fromNow, current, commands, kills>>

\* The state is written: running, with no command, whatever was there.
StartPlaying(d) ==
    /\ stage[d] = "starting"
    /\ stage' = [stage EXCEPT ![d] = "playing"]
    /\ status' = "running"
    /\ command' = ""
    /\ UNCHANGED <<vars, clean, sent, control, listening, fromNow, current, commands, kills>>

Unfinished(d) == stage[d] = "playing" /\ sent[d] < Len(Schedule)

\* A tick with no command: what is due of the schedule goes to the stream,
\* record by record, whatever the command becomes meanwhile ...
Tick(d) ==
    /\ Unfinished(d)
    /\ command = ""
    /\ stage' = [stage EXCEPT ![d] = "ticking"]
    /\ UNCHANGED <<vars, clean, sent, status, command, control, listening, fromNow, current,
                   commands, kills>>

Play(d) ==
    /\ stage[d] = "ticking"
    /\ sent[d] < Len(Schedule)
    /\ Len(stream) < MaxStream
    /\ stream' = Append(stream, Schedule[sent[d] + 1])
    /\ sent' = [sent EXCEPT ![d] = @ + 1]
    /\ UNCHANGED <<store, pipelineVars, clean, stage, status, command, control, listening, fromNow,
                   current, commands, kills>>

\* ... and the status is reported.
EndTick(d) ==
    /\ stage[d] = "ticking"
    /\ stage' = [stage EXCEPT ![d] = "playing"]
    /\ status' = "running"
    /\ UNCHANGED <<vars, clean, sent, command, control, listening, fromNow, current, commands,
                   kills>>

StopPlaying(d) ==
    /\ Unfinished(d)
    /\ command = "stop"
    /\ stage' = [stage EXCEPT ![d] = "done"]
    /\ status' = "stopped"
    /\ command' = ""
    /\ UNCHANGED <<vars, clean, sent, control, listening, fromNow, current, commands, kills>>

Pause(d) ==
    /\ Unfinished(d)
    /\ command = "pause"
    /\ status' = "paused"
    /\ UNCHANGED <<vars, clean, stage, sent, command, control, listening, fromNow, current,
                   commands, kills>>

\* The schedule is over; a looping driver starts again after 30 seconds.
Finish(d) ==
    /\ stage[d] = "playing"
    /\ sent[d] = Len(Schedule)
    /\ status' = "finished"
    /\ stage' = [stage EXCEPT ![d] = IF d \in Looping THEN "resting" ELSE "done"]
    /\ UNCHANGED <<vars, clean, sent, command, control, listening, fromNow, current, commands, kills>>

StartOver(d) ==
    /\ stage[d] = "resting"
    /\ Len(stream) < MaxStream
    /\ stage' = [stage EXCEPT ![d] = "clearing"]
    /\ UNCHANGED <<vars, clean, sent, status, command, control, listening, fromNow, current,
                   commands, kills>>

-----------------------------------------------------------------------------
Serve == Listen \/ HearNothing \/ HearStart \/ Joined \/ ServiceRestart

Drive(d) ==
    \/ ClearLog(d) \/ DeleteMatch(d) \/ ProduceReset(d) \/ StartPlaying(d)
    \/ Tick(d) \/ Play(d) \/ EndTick(d) \/ StopPlaying(d) \/ Pause(d) \/ Finish(d) \/ StartOver(d)

\* The pipeline, fed by the drivers alone.
Pipeline ==
    /\ \/ \E w \in Worker : WorkerStep(w) \/ GiveBack(w) \/ Stop(w)
       \/ ExpireDead \/ Lapse
       \/ \E c \in Reclaimer : Claim(c)
       \/ \E c \in Consumer : Handle(c) \/ Fault(c) \/ Crash(c) \/ Restart(c)
    /\ crashes' + kills <= MaxDeath
    /\ UNCHANGED <<driverVars, clean>>

ReplayNext ==
    \/ Pipeline
    \/ Start \/ \E c \in {"", "pause", "stop"} : Command(c)
    \/ Serve
    \/ \E d \in Driver : Drive(d)

ReplaySpec == ReplayInit /\ [][ReplayNext]_replayVars

-----------------------------------------------------------------------------
(* Properties. *)

SentBy(d) == {Schedule[i] : i \in 1 .. sent[d]}
Recorded == slog \cup (IF state = NoDoc THEN {} ELSE state)

Alone == \A d \in Driver \ {current} : ~Alive(d)

\* "a restarted replay is a new history" (driver.py, 114-115): once the driver
\* has cleared the match and is the only one, the match's log and document hold
\* only what it has sent itself, and so nothing from later in the match.
HistoryIsOwn ==
    Alone /\ stage[current] \notin {"unborn", "clearing", "deleting", "killed"} =>
        Recorded \subseteq SentBy(current)

\* The same, of restarts that find the pipeline idle and the last driver gone:
\* no memory of the old history survives the reset marker, a crash or a lease.
CleanRestartIsOwn == clean => HistoryIsOwn

\* A replay that was restarted while nothing was under way ends with the
\* complete match: no record is taken for one of the old history and dropped.
CleanReplayIsComplete ==
    clean /\ Quiet(current) /\ stage[current] \in {"resting", "done"} /\ status = "finished"
        => slog = SentBy(current) /\ (slog \cap Event # {} => state = slog /\ parts = slog)

=============================================================================
