----------------------------- MODULE SensorScript -----------------------------
(***************************************************************************)
(* The sensor scripts of the ESP32 (firmware/src/sensor_script.cpp).  The  *)
(* MQTT client's task checks commands and queues them; script_task installs*)
(* a program (validate, save in NVS, replace, run), runs it on command and *)
(* at its interval, or deletes it, and answers every command.  A running   *)
(* program opens ports and turns on power rails; the gateway task measures *)
(* the battery through a pin that I2C and UART use too.                    *)
(***************************************************************************)
EXTENDS Naturals, Sequences

CONSTANTS
  Scripts,           \* programs, each with its interval
  Invalid,           \* those Lua does not compile
  NoScript,
  QueueRoom,         \* command_queue
  MaxCommands,       \* bound: commands sent
  MaxScriptFaults    \* bound: resets, lost sessions, failing NVS writes

ASSUME ScriptAssumption ==
  /\ Invalid \subseteq Scripts /\ NoScript \notin Scripts
  /\ QueueRoom \in Nat \ {0}
  /\ MaxCommands \in Nat /\ MaxScriptFaults \in Nat

VARIABLES
  saved,      \* the NVS record: source and interval
  active,     \* active_source, active_interval_seconds
  commands,   \* command_queue
  task,       \* where script_task is, in which command
  lock,       \* who holds hardware_mutex
  ports,      \* ports a program has open
  rails,      \* power rails that are on
  online,     \* kMqttConnected
  told,       \* what the user knows from the answer to the last command that
              \* changes the script
  sentCommands, scriptFaults

scriptVars == <<saved, active, commands, task, lock, ports, rails, online, told,
                sentCommands, scriptFaults>>

Ports == {"i2c", "uart", "rs485"}
Rail(port) == IF port = "rs485" THEN "rs485" ELSE "sensor"   \* GPIO13, GPIO14
Program(s) == [source |-> s, interval |-> s]
NoProgram == Program(NoScript)

Command(action, s) == [action |-> action, script |-> s]
Commands == {Command("set", s) : s \in Scripts} \cup
            {Command("run", NoScript), Command("delete", NoScript)}
Timer == Command("timer", NoScript)
Changes(c) == c.action \in {"set", "delete"}
Doing(step, c) == [at |-> step, command |-> c]
Waiting == Doing("idle", Timer)

Unknown == [kind |-> "unknown", script |-> NoScript]
Told(kind, s) == [kind |-> kind, script |-> s]

ScriptFault == /\ scriptFaults < MaxScriptFaults
               /\ scriptFaults' = scriptFaults + 1

ScriptInit ==
  /\ saved = NoProgram /\ active = NoProgram
  /\ commands = <<>> /\ task = Waiting
  /\ lock = "free" /\ ports = {} /\ rails = {}
  /\ online = TRUE /\ told = Unknown
  /\ sentCommands = 0 /\ scriptFaults = 0

\* publish_script_status drops the answer while the session is down; a command
\* that is still to come makes it outdated.
Tell(kind, s) ==
  told' = IF online /\ \A i \in DOMAIN commands : ~Changes(commands[i])
          THEN Told(kind, s) ELSE Unknown

\* ------------------------------------------------------------ MQTT and reset

\* sensor_script_handle_mqtt_command: a full queue refuses the command at once.
SendCommand(c) ==
  /\ online /\ sentCommands < MaxCommands
  /\ sentCommands' = sentCommands + 1
  /\ IF Len(commands) < QueueRoom
     THEN /\ commands' = Append(commands, c)
          /\ told' = IF Changes(c) THEN Unknown ELSE told
     ELSE UNCHANGED <<commands, told>>
  /\ UNCHANGED <<saved, active, task, lock, ports, rails, online, scriptFaults>>

LoseSession ==
  /\ online /\ ScriptFault
  /\ online' = FALSE
  /\ UNCHANGED <<saved, active, commands, task, lock, ports, rails, told, sentCommands>>

RegainSession ==
  /\ ~online
  /\ online' = TRUE
  /\ UNCHANGED <<saved, active, commands, task, lock, ports, rails, told,
                sentCommands, scriptFaults>>

\* A reset; load_saved_script loads a whole program, or a program with the
\* default interval.  Commands under way are lost.
ResetBoard ==
  /\ ScriptFault
  /\ active' = IF saved.source = NoScript THEN NoProgram ELSE saved
  /\ commands' = <<>> /\ task' = Waiting
  /\ lock' = "free" /\ ports' = {} /\ rails' = {}
  /\ online' = FALSE
  /\ told' = IF Changes(task.command) \/ \E i \in DOMAIN commands : Changes(commands[i])
             THEN Unknown ELSE told
  /\ UNCHANGED <<saved, sentCommands>>

\* ------------------------------------------------------------- script_task

TakeCommand ==
  /\ task.at = "idle" /\ commands # <<>>
  /\ LET c == Head(commands)
     IN task' = Doing(IF c.action = "set" THEN "save" ELSE
                      IF c.action = "run" THEN "lock" ELSE "delete", c)
  /\ commands' = Tail(commands)
  /\ UNCHANGED <<saved, active, lock, ports, rails, online, told, sentCommands,
                scriptFaults>>

\* The interval has passed without a command.
TimerFires ==
  /\ task.at = "idle" /\ commands = <<>> /\ active.source # NoScript
  /\ task' = Doing("lock", Timer)
  /\ UNCHANGED <<saved, active, commands, lock, ports, rails, online, told,
                sentCommands, scriptFaults>>

\* As if the error of save_script were only logged.
RunsUnsaved ==
  /\ active' = Program(task.command.script)
  /\ task' = Doing("lock", task.command) /\ UNCHANGED told

\* A script that could not be saved is not installed.
NotInstalled ==
  /\ task' = Waiting /\ Tell("failed", task.command.script)
  /\ UNCHANGED active

\* process_command, set: validate_script, save_script (the source, then the
\* interval), replace_active_source.
InstallScript ==
  LET s == task.command.script IN
  /\ task.at = "save"
  /\ \/ /\ s \in Invalid
        /\ NotInstalled
        /\ UNCHANGED <<saved, scriptFaults>>
     \/ /\ s \notin Invalid
        /\ saved' = Program(s) /\ active' = Program(s)
        /\ task' = Doing("lock", task.command)
        /\ UNCHANGED <<told, scriptFaults>>
     \/ /\ s \notin Invalid /\ ScriptFault
        /\ \E source \in {s, saved.source} : saved' = [saved EXCEPT !.source = source]
        /\ NotInstalled
  /\ UNCHANGED <<commands, lock, ports, rails, online, sentCommands>>

\* The reset between the two keys of save_script.
ResetInSave ==
  LET s == task.command.script IN
  /\ task.at = "save" /\ s \notin Invalid
  /\ ScriptFault
  /\ saved' = [saved EXCEPT !.source = s]
  /\ active' = saved'
  /\ commands' = <<>> /\ task' = Waiting
  /\ lock' = "free" /\ ports' = {} /\ rails' = {}
  /\ online' = FALSE /\ told' = Unknown
  /\ UNCHANGED sentCommands

\* As if the rails were left on.
ClosePortsOnly == ports' = {} /\ UNCHANGED rails

\* close_script_interfaces.
CloseAll == ports' = {} /\ rails' = {}

\* delete_script: what NVS says is not looked at.  (What it kept is in told for
\* the properties; the user does not learn of it.)
DeleteScript ==
  /\ task.at = "delete"
  /\ \/ saved' = NoProgram /\ UNCHANGED scriptFaults
     \/ ScriptFault /\ UNCHANGED saved
  /\ active' = NoProgram
  /\ CloseAll
  /\ task' = Waiting /\ Tell("deleted", saved'.source)
  /\ UNCHANGED <<commands, lock, online, sentCommands>>

\* execute_script: no program, or the wait for the hardware.
FinishCommand(works) ==
  /\ task' = Waiting
  /\ IF task.command.action = "set"
     THEN Tell(IF works THEN "installed" ELSE "failed", task.command.script)
     ELSE UNCHANGED told

RunNothing ==
  /\ task.at = "lock" /\ active.source = NoScript
  /\ FinishCommand(FALSE)
  /\ UNCHANGED <<saved, active, commands, lock, ports, rails, online,
                sentCommands, scriptFaults>>

TakeHardware ==
  /\ task.at = "lock" /\ active.source # NoScript
  /\ lock = "free"
  /\ lock' = "script"
  /\ task' = Doing("run", task.command)
  /\ UNCHANGED <<saved, active, commands, ports, rails, online, told, sentCommands,
                scriptFaults>>

\* lua_i2c_connect and open_uart_port: I2C and UART close each other, opening
\* turns the port's rail on, and a port that cannot be opened stays closed;
\* only a UART port then turns its rail off again.  An open I2C is left as it is.
Rival(port) == CASE port = "i2c" -> {"uart"} [] port = "uart" -> {"i2c"} [] OTHER -> {}
OpenPort(port) ==
  /\ task.at = "run"
  /\ \/ /\ ports' = (ports \ Rival(port)) \cup {port}
        /\ rails' = IF port \in ports /\ port = "i2c" THEN rails ELSE rails \cup {Rail(port)}
     \/ /\ port \notin ports \/ port # "i2c"
        /\ ports' = ports \ (Rival(port) \cup {port})
        /\ rails' = IF port = "i2c" THEN rails \cup {Rail(port)} ELSE rails \ {Rail(port)}
  /\ UNCHANGED <<saved, active, commands, task, lock, online, told, sentCommands,
                scriptFaults>>

\* close_i2c leaves the rail to an open UART; close_uart_port turns it off.
ClosePort(port) ==
  /\ task.at = "run"
  /\ ports' = ports \ {port}
  /\ rails' = IF port = "i2c" /\ "uart" \in ports THEN rails ELSE rails \ {Rail(port)}
  /\ UNCHANGED <<saved, active, commands, task, lock, online, told, sentCommands,
                scriptFaults>>

\* The program returns or fails; execute_script closes what it left open,
\* then gives the hardware back.
EndRun ==
  /\ task.at = "run"
  /\ CloseAll
  /\ lock' = "free"
  /\ \E works \in BOOLEAN : FinishCommand(works)
  /\ UNCHANGED <<saved, active, commands, online, sentCommands, scriptFaults>>

\* read_battery_millivolts in the gateway task tries the mutex.
ReadBattery ==
  /\ lock = "free"
  /\ lock' = "battery"
  /\ UNCHANGED <<saved, active, commands, task, ports, rails, online, told,
                sentCommands, scriptFaults>>

BatteryRead ==
  /\ lock = "battery"
  /\ lock' = "free"
  /\ UNCHANGED <<saved, active, commands, task, ports, rails, online, told,
                sentCommands, scriptFaults>>

\* ------------------------------------------------------------ specification

ScriptNext ==
  \/ \E c \in Commands : SendCommand(c)
  \/ LoseSession \/ RegainSession \/ ResetBoard \/ ResetInSave
  \/ TakeCommand \/ TimerFires \/ InstallScript \/ DeleteScript
  \/ RunNothing \/ TakeHardware \/ EndRun
  \/ \E port \in Ports : OpenPort(port) \/ ClosePort(port)
  \/ ReadBattery \/ BatteryRead

ScriptSpec == ScriptInit /\ [][ScriptNext]_scriptVars

\* --------------------------------------------------------------- properties

Programs == [source : Scripts \cup {NoScript}, interval : Scripts \cup {NoScript}]

ScriptTypeOK ==
  /\ saved \in Programs /\ active \in Programs
  /\ commands \in Seq(Commands) /\ Len(commands) <= QueueRoom
  /\ task \in [at : {"idle", "save", "delete", "lock", "run"},
               command : Commands \cup {Timer}]
  /\ lock \in {"free", "script", "battery"}
  /\ ports \subseteq Ports /\ rails \subseteq {"sensor", "rs485"}
  /\ online \in BOOLEAN
  /\ told \in [kind : {"unknown", "installed", "failed", "deleted"},
               script : Scripts \cup {NoScript}]
  /\ sentCommands \in 0..MaxCommands /\ scriptFaults \in 0..MaxScriptFaults

\* I2C, UART and the battery divider share pins: no two of them are in use at a
\* time.  Outside a run, whatever the last one did and wherever it failed,
\* every port is closed and every rail is off; so delete_script, which closes
\* the ports without the mutex, finds nothing to close.
PinsExclusive ==
  /\ ~({"i2c", "uart"} \subseteq ports)
  /\ lock # "script" => ports = {} /\ rails = {}

\* Once the user was told that a script is installed, and until a command that
\* changes it is under way, it is the one in memory and in NVS, with its
\* interval, across resets and runs that fail; after "deleted" no script runs,
\* unless NVS kept one: that one is back after the next reset.
Settled == ~Changes(task.command) /\ \A i \in DOMAIN commands : ~Changes(commands[i])
ToldIsTrue ==
  Settled =>
    /\ told.kind = "installed" => active = Program(told.script) /\ saved = active
    /\ told.kind = "deleted" =>
         /\ saved.source = told.script
         /\ told.script = NoScript => active.source = NoScript
=============================================================================
