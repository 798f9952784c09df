----------------------------- MODULE Containers ------------------------------
(* `network container start`, `stop` and `logs`: which Docker daemon a        *)
(* command reaches, the container it makes there, and the instructions that   *)
(* `start` prints.  The daemons are external: several users start and stop    *)
(* containers on them.                                                        *)
EXTENDS Naturals, FiniteSets, Sequences

CONSTANTS
  Procs,
  Sockets,      \* daemons named by unix:// paths
  Remotes,      \* daemons named by tcp:// addresses
  Names,        \* names given with --name
  Mappings,     \* lists of -p values, as <<host port, container port>>
  MaxStarts     \* bound: containers made

DefaultHost == "unix default"          \* DEFAULT_DOCKER_HOST
Desktop == "docker desktop"            \* $HOME/.docker/run/docker.sock
HttpDefault == "http default"          \* the address of connect_with_http_defaults
None == "none"
Unsupported == "ssh"                   \* a scheme that is not supported
Local == "local"                       \* the name of the default network

DaemonsAssumption ==
  {DefaultHost, Desktop, HttpDefault, None, Unsupported} \cap (Sockets \cup Remotes) = {}

Daemons == Sockets \cup Remotes \cup {DefaultHost, Desktop}
             \cup (IF Remotes = {} THEN {} ELSE {HttpDefault})
HostArgs == Sockets \cup Remotes \cup {None, Unsupported}

VARIABLES
  up,          \* the daemons that answer
  containers,  \* the containers: daemon, name, ports, whether started
  made,        \* how many were made
  pc, op, host, name, ports, daemon, own,
  notes        \* the instructions each `start` printed: host, name, the container

vars == <<up, containers, made, pc, op, host, name, ports, daemon, own, notes>>

Init ==
  /\ up \in SUBSET Daemons
  /\ containers = {} /\ made = 0
  /\ pc = [p \in Procs |-> "idle"]
  /\ op = [p \in Procs |-> "none"]
  /\ host = [p \in Procs |-> None]
  /\ name = [p \in Procs |-> Local]
  /\ ports = [p \in Procs |-> <<>>]
  /\ daemon = [p \in Procs |-> None]
  /\ own = [p \in Procs |-> 0]
  /\ notes = {}

Goto(p, label) == pc' = [pc EXCEPT ![p] = label]
At(p, label) == pc[p] = label
Line == <<op, host, name, ports>>

(* A command line: --docker-host, a name, the ports.  `stop` and `logs` are   *)
(* given what the instructions say.                                           *)
Start(p) ==
  /\ pc[p] \in {"idle", "done", "failed"} /\ made < MaxStarts
  /\ op' = [op EXCEPT ![p] = "start"]
  /\ \E h \in HostArgs, n \in Names \cup {Local}, m \in Mappings :
       /\ host' = [host EXCEPT ![p] = h]
       /\ name' = [name EXCEPT ![p] = n]
       /\ ports' = [ports EXCEPT ![p] = m]
  /\ own' = [own EXCEPT ![p] = 0]
  /\ daemon' = [daemon EXCEPT ![p] = None]
  /\ Goto(p, "connect")
  /\ UNCHANGED <<up, containers, made, notes>>

Follow(p) ==
  /\ pc[p] \in {"idle", "done", "failed"}
  /\ \E note \in notes, o \in {"stop", "logs"} :
       /\ op' = [op EXCEPT ![p] = o]
       /\ host' = [host EXCEPT ![p] = note.host]
       /\ name' = [name EXCEPT ![p] = note.name]
       /\ own' = [own EXCEPT ![p] = note.id]
  /\ ports' = [ports EXCEPT ![p] = <<>>]
  /\ daemon' = [daemon EXCEPT ![p] = None]
  /\ Goto(p, "connect")
  /\ UNCHANGED <<up, containers, made, notes>>

(* connect_to_docker: the address by its scheme, and Docker Desktop when the  *)
(* daemon does not answer.  The tcp:// address of the flag is not passed on:  *)
(* connect_with_http_defaults takes the one of the environment, or its own.   *)
Address(h) ==
  CASE h = None -> DefaultHost
    [] h \in Sockets -> h
    [] h \in Remotes -> HttpDefault
    [] h = Unsupported -> None

ConnectToDocker(h) ==
  IF Address(h) = None THEN None
  ELSE IF Address(h) \in up THEN Address(h)
  ELSE IF Desktop \in up THEN Desktop ELSE None

Connect(p) ==
  /\ At(p, "connect")
  /\ daemon' = [daemon EXCEPT ![p] = ConnectToDocker(host[p])]
  /\ Goto(p, IF ConnectToDocker(host[p]) = None THEN "failed"
             ELSE IF op[p] = "start" THEN "pull" ELSE op[p])
  /\ UNCHANGED <<up, containers, made, Line, own, notes>>

(* create_image: a failed pull is a warning, and the image that is there is   *)
(* used; without one the container cannot be created.                         *)
Pull(p) ==
  /\ At(p, "pull")
  /\ \/ Goto(p, "create")
     \/ Goto(p, "failed")
  /\ UNCHANGED <<up, containers, made, Line, daemon, own, notes>>

(* get_port_mapping: a map from container ports.                              *)
PortMapping(list) ==
  [c \in {list[i][2] : i \in DOMAIN list} |->
     list[CHOOSE i \in DOMAIN list : list[i][2] = c /\ \A j \in DOMAIN list :
            list[j][2] = c => j <= i][1]]

Named(d, n) == {c \in containers : c.daemon = d /\ c.name = n}

(* create_container: a name is taken while its container exists.              *)
Create(p) ==
  /\ At(p, "create")
  /\ IF Named(daemon[p], name[p]) = {}
     THEN /\ made' = made + 1
          /\ own' = [own EXCEPT ![p] = made + 1]
          /\ containers' = containers \cup
               {[id |-> made + 1, daemon |-> daemon[p], name |-> name[p],
                 ports |-> PortMapping(ports[p]), started |-> FALSE]}
          /\ Goto(p, "run")
     ELSE Goto(p, "failed") /\ UNCHANGED <<made, own, containers>>
  /\ UNCHANGED <<up, Line, daemon, notes>>

HostPorts(c) == {c.ports[q] : q \in DOMAIN c.ports}
InUse(d) == UNION {HostPorts(c) : c \in {x \in containers : x.daemon = d /\ x.started}}

(* The name alone.                                                            *)
InstructionsBare(p) == [host |-> None, name |-> name[p], id |-> own[p]]

(* print_instructions: the name and --docker-host as it was given.            *)
Instructions(p) == [host |-> host[p], name |-> name[p], id |-> own[p]]

(* start_container: a container that cannot start is removed (auto_remove).   *)
Run(p) ==
  /\ At(p, "run")
  /\ \E c \in containers : c.id = own[p]
       /\ IF HostPorts(c) \cap InUse(c.daemon) = {}
          THEN /\ containers' = (containers \ {c}) \cup {[c EXCEPT !.started = TRUE]}
               /\ notes' = notes \cup {Instructions(p)}
               /\ Goto(p, "done")
          ELSE /\ containers' = containers \ {c}
               /\ Goto(p, "failed") /\ UNCHANGED notes
  /\ UNCHANGED <<up, made, Line, daemon, own>>

(* stop: the container of that name is stopped, and with auto_remove removed; *)
(* one that was never started cannot be stopped.                              *)
Stop(p) ==
  /\ At(p, "stop")
  /\ LET found == {c \in Named(daemon[p], name[p]) : c.started}
     IN  /\ containers' = containers \ found
         /\ Goto(p, IF found = {} THEN "failed" ELSE "done")
  /\ UNCHANGED <<up, made, Line, daemon, own, notes>>

(* logs follows the container until it stops.                                 *)
Logs(p) ==
  /\ At(p, "logs") /\ {c \in Named(daemon[p], name[p]) : c.started} = {}
  /\ Goto(p, "done")
  /\ UNCHANGED <<up, containers, made, Line, daemon, own, notes>>

(* The command is interrupted.                                                *)
Kill(p) ==
  /\ pc[p] \notin {"idle", "done", "failed"}
  /\ Goto(p, "failed")
  /\ UNCHANGED <<up, containers, made, Line, daemon, own, notes>>

Next == \E p \in Procs :
  \/ Start(p) \/ Follow(p) \/ Connect(p) \/ Pull(p) \/ Create(p) \/ Run(p) \/ Stop(p)
  \/ Logs(p) \/ Kill(p)

ContainersSpec == Init /\ [][Next]_vars

-----------------------------------------------------------------------------
(* "Stop the container with `stellar network container stop {}`": when that   *)
(* command says "Container stopped", the container it was printed for does    *)
(* not run, while the same daemons answer and whatever other users start.     *)
InstructionsStop ==
  \A p \in Procs : op[p] = "stop" /\ At(p, "done") =>
    \A c \in containers : c.id = own[p] => ~ c.started

=============================================================================
