-------------------------- MODULE CommandLineProofs --------------------------
(* CommandLine for any number of terminals, hosts, users and commands.     *)
EXTENDS CommandLine, TLAPS

Places == {"idle", "config", "open hosts", "write hosts", "session", "get user", "command",
           "open session", "write session"}
Outs   == {"ok", "error", "panic", "died"}

Processes == [at : Places, out : Outs \cup {None},
              cmd : HostCommands \cup LoginCommands \cup OtherCommands,
              cfg : Tables, save : Tables, host : Entries, user : Logins \cup {None},
              linked : BOOLEAN]

CliTypeOK ==
    /\ hosts \in Tables \cup {Missing, Empty, Torn}
    /\ session \in Logins \cup {Missing, Empty, Torn}
    /\ accepted \subseteq Logins
    /\ proc \in [Terminals -> Processes]
    /\ faults \in Nat

(* What a process is doing belongs to its command: a table is saved by     *)
(* add, rm and use, with the change they ask for, and a session is saved   *)
(* for credentials that were accepted.                                     *)
EditAsked(p) ==
    At(p, "open hosts") \/ At(p, "write hosts") =>
        /\ proc[p].cmd.op \in {"add", "rm", "use"}
        /\ proc[p].cmd.op = "use" => proc[p].cmd.name \in DOMAIN proc[p].cfg
        /\ proc[p].save = HostChange(proc[p].cfg, proc[p].cmd)

BeyondHosts(p) ==
    proc[p].at \in {"session", "get user", "command", "open session", "write session"} =>
        proc[p].cmd.op \notin {"add", "rm", "use", "ls", "usage"}

SaveAccepted(p) ==
    At(p, "open session") \/ At(p, "write session") =>
        proc[p].cmd \in LoginCommands /\ Credentials(p) \in accepted

(* A user of one terminal: nobody else has the files open. *)
HostsMine(p) ==
    /\ IF At(p, "write hosts") THEN hosts = Empty ELSE hosts \in Tables \cup {Missing}
    /\ At(p, "open hosts") => proc[p].cfg = IF hosts = Missing THEN NoHosts ELSE hosts

SessionMine(p) ==
    /\ At(p, "write session") => session = Empty /\ proc[p].linked
    /\ At(p, "idle") /\ proc[p].out = "ok" /\ legacyAlias(proc[p].cmd.op) \in {"init", "login"}
           => session = Credentials(p)

LocalInv(p) == /\ EditAsked(p) /\ BeyondHosts(p) /\ SaveAccepted(p)
               /\ Alone(p) => HostsMine(p) /\ SessionMine(p)

CliInv == CliTypeOK /\ SessionsAccepted /\ \A p \in Terminals : LocalInv(p)

-----------------------------------------------------------------------------
(* Tables *)

LEMMA TableFacts ==
    ASSUME NEW t \in Tables
    PROVE  DOMAIN t \subseteq Names /\ \A n \in DOMAIN t : t[n] \in Entries
BY DEF Tables

LEMMA TableIntro ==
    ASSUME NEW D \in SUBSET Names, NEW t \in [D -> Entries]
    PROVE  t \in Tables
BY DEF Tables

LEMMA NoHostsTable == NoHosts \in Tables
<1>1. NoHosts \in [{} -> Entries]
  BY DEF NoHosts
<1> QED
  BY <1>1, TableIntro

LEMMA PutTable ==
    ASSUME NEW t \in Tables, NEW n \in Names, NEW e \in Entries
    PROVE  Put(t, n, e) \in Tables /\ DOMAIN Put(t, n, e) = DOMAIN t \cup {n}
<1>1. Put(t, n, e) \in [DOMAIN t \cup {n} -> Entries]
  BY TableFacts DEF Put
<1> QED
  BY <1>1, TableFacts, TableIntro

LEMMA RemoveTable ==
    ASSUME NEW t \in Tables, NEW n \in Names
    PROVE  Remove(t, n) \in Tables
<1>1. Remove(t, n) \in [DOMAIN t \ {n} -> Entries]
  BY TableFacts DEF Remove, Restrict
<1> QED
  BY <1>1, TableFacts, TableIntro

(* The change a host command asks for gives a table. *)
LEMMA HostChangeTable ==
    ASSUME NEW t \in Tables, NEW c \in HostCommands, c.op \in {"add", "rm", "use"},
           c.op = "use" => c.name \in DOMAIN t
    PROVE  HostChange(t, c) \in Tables
<1>1. CASE c.op = "add"
  <2>1. c.name \in Names /\ c.entry \in Entries
    BY <1>1 DEF HostCommands
  <2>2. HostChange(t, c) = Put(t, c.name, c.entry)
    BY <1>1 DEF HostChange
  <2>3. Put(t, c.name, c.entry) \in Tables
    BY <2>1, PutTable
  <2> QED
    BY <2>2, <2>3
<1>2. CASE c.op = "rm"
  <2>1. c.name \in Names
    BY <1>2 DEF HostCommands
  <2>2. HostChange(t, c) = Remove(t, c.name)
    BY <1>2 DEF HostChange
  <2> QED
    BY <2>1, <2>2, RemoveTable
<1>3. CASE c.op = "use"
  <2>1. c.name \in Names /\ t[c.name] \in Entries /\ Default \in Names
    BY <1>3, TableFacts, HostAssumption DEF HostCommands
  <2>2. HostChange(t, c) = Remove(Put(t, Default, t[c.name]), c.name)
    BY <1>3 DEF HostChange
  <2>3. Put(t, Default, t[c.name]) \in Tables
    BY <2>1, PutTable
  <2>4. Remove(Put(t, Default, t[c.name]), c.name) \in Tables
    BY <2>1, <2>3, RemoveTable
  <2> QED
    BY <2>2, <2>4
<1> QED
  BY <1>1, <1>2, <1>3

-----------------------------------------------------------------------------
(* Faults are only counted up, and what was accepted stays accepted. *)
Onward ==
    /\ faults' \in Nat /\ faults <= faults'
    /\ accepted \subseteq accepted' /\ accepted' \subseteq Logins

LEMMA NoMoreFaults == faults \in Nat /\ faults' = faults => faults' \in Nat /\ faults <= faults'
OBVIOUS

LEMMA SameOnward ==
    ASSUME CliInv, UNCHANGED <<accepted, faults>>
    PROVE  Onward
BY DEF Onward, CliInv, CliTypeOK

LEMMA FaultOnward ==
    ASSUME CliInv, UNCHANGED accepted, faults' = faults + 1
    PROVE  Onward /\ faults' # 0
BY DEF Onward, CliInv, CliTypeOK

(* What a step of one terminal leaves to the others: all but the link of a *)
(* session file they have open.                                            *)
Frame(p) ==
    /\ \A q \in Terminals \ {p} :
           /\ proc'[q].at = proc[q].at /\ proc'[q].out = proc[q].out
           /\ proc'[q].cmd = proc[q].cmd
           /\ proc'[q].cfg = proc[q].cfg /\ proc'[q].save = proc[q].save
    /\ proc'[p].at # "idle" \/ proc'[p].out # None
    /\ Onward

LEMMA AloneBefore ==
    ASSUME CliTypeOK, CliTypeOK', NEW p \in Terminals, Frame(p), NEW q \in Terminals, Alone(q)'
    PROVE  q = p /\ Alone(p)
<1>1. ~Unused(p)'
  BY DEF Frame, Unused, At
<1>2. q = p
  BY <1>1 DEF Alone
<1>3. faults = 0
  BY DEF Alone, Frame, CliTypeOK, Onward
<1> QED
  BY <1>2, <1>3 DEF Alone, Unused, At, Frame

(* It is enough to look at the terminal that takes the step. *)
LEMMA LocalStep ==
    ASSUME CliInv, NEW p \in Terminals, Frame(p), CliTypeOK', SessionsAccepted', LocalInv(p)'
    PROVE  CliInv'
<1> SUFFICES ASSUME NEW q \in Terminals, q # p
             PROVE  LocalInv(q)'
  BY DEF CliInv
<1>1. ~Alone(q)'
  BY AloneBefore DEF CliInv
<1>2. EditAsked(q)' /\ BeyondHosts(q)'
  BY DEF Frame, CliInv, LocalInv, EditAsked, BeyondHosts, At
<1>3. SaveAccepted(q)'
  BY DEF Frame, Onward, CliInv, LocalInv, SaveAccepted, At, Credentials
<1> QED
  BY <1>1, <1>2, <1>3 DEF LocalInv

(* The table a user of one terminal sees. *)
Seen(p) == IF At(p, "write hosts") THEN proc[p].cfg
           ELSE IF hosts = Missing THEN NoHosts ELSE hosts

LEMMA SeenAlone == \A p \in Terminals : CliInv /\ Alone(p) => SeenTable = Seen(p)
<1> SUFFICES ASSUME NEW p \in Terminals, CliInv, Alone(p)
             PROVE  SeenTable = Seen(p)
  OBVIOUS
<1>1. \A q \in Terminals : At(q, "write hosts") => q = p
  BY DEF Alone, Unused, At
<1>2. At(p, "write hosts") => hosts # Missing
  BY FilesAssumption DEF CliInv, LocalInv, HostsMine
<1>3. CASE At(p, "write hosts")
  <2>1. (CHOOSE q \in Terminals : At(q, "write hosts")) = p
    BY <1>1, <1>3
  <2> QED
    BY <1>2, <1>3, <2>1 DEF SeenTable, Seen
<1>4. CASE ~At(p, "write hosts")
  BY <1>1, <1>4 DEF SeenTable, Seen
<1> QED
  BY <1>3, <1>4

LEMMA SeenAloneNext == (\A p \in Terminals : CliInv /\ Alone(p) => SeenTable = Seen(p))'
BY SeenAlone, PTL

(* A step of a user of one terminal is a step of HostTable if it is one    *)
(* for that terminal.                                                      *)
LEMMA LocalHostStep ==
    ASSUME CliInv, CliInv', NEW p \in Terminals, Frame(p),
           Alone(p) /\ Alone(p)' =>
               IF HostCommandDone(p)
               THEN \/ Hosts!TableNext /\ Hosts!Do(proc[p].cmd)
                    \/ UsesDefault(proc[p].cmd)
               ELSE Seen(p)' = Seen(p)
    PROVE  HostStep
<1> SUFFICES ASSUME NEW q \in Terminals, Alone(q)'
             PROVE  \/ HostCommandDone(q) /\ Hosts!TableNext /\ Hosts!Do(proc[q].cmd)
                    \/ HostCommandDone(q) /\ UsesDefault(proc[q].cmd)
                    \/ ~HostCommandDone(q) /\ UNCHANGED SeenTable
  BY DEF HostStep
<1>1. q = p /\ Alone(p)
  BY AloneBefore DEF CliInv
<1>2. SeenTable = Seen(p)
  BY <1>1, SeenAlone
<1>3. SeenTable' = Seen(p)'
  BY <1>1, SeenAloneNext
<1> QED
  BY <1>1, <1>2, <1>3

LEMMA StepDone ==
    ASSUME CliInv, NEW p \in Terminals, Frame(p), CliTypeOK', SessionsAccepted', LocalInv(p)',
           Alone(p) /\ Alone(p)' =>
               IF HostCommandDone(p)
               THEN \/ Hosts!TableNext /\ Hosts!Do(proc[p].cmd)
                    \/ UsesDefault(proc[p].cmd)
               ELSE Seen(p)' = Seen(p)
    PROVE  CliInv' /\ HostStep
<1>1. CliInv'
  BY LocalStep
<1> QED
  BY <1>1, LocalHostStep

-----------------------------------------------------------------------------
(* Steps of one process that leave both files alone. *)

(* Only p's process changes, to something well formed. *)
Moves(p) ==
    /\ proc' \in [Terminals -> Processes]
    /\ \A q \in Terminals \ {p} : proc'[q] = proc[q]

LEMMA MoveFacts ==
    ASSUME CliTypeOK, NEW p \in Terminals, NEW new \in Processes,
           proc' = [proc EXCEPT ![p] = new]
    PROVE  Moves(p) /\ proc'[p] = new
BY DEF Moves, CliTypeOK

LEMMA QuietStep ==
    ASSUME CliInv, NEW p \in Terminals, Moves(p),
           hosts' = hosts, session' = session,
           Onward,
           EditAsked(p)', BeyondHosts(p)', SaveAccepted(p)',
           ~At(p, "write hosts")', ~At(p, "write session")',
           At(p, "write hosts") => faults' # 0,
           At(p, "open hosts")' => proc'[p].cfg = IF hosts = Missing THEN NoHosts ELSE hosts,
           At(p, "idle") \/ proc'[p].cmd = proc[p].cmd,
           At(p, "idle")' => proc'[p].out # None,
           At(p, "idle")' /\ proc'[p].out = "ok" /\ faults' = 0 =>
               /\ legacyAlias(proc'[p].cmd.op) \notin {"init", "login"}
               /\ proc'[p].cmd.op \notin {"add", "rm", "use"}
    PROVE  CliInv' /\ HostStep
<1>1. CliTypeOK'
  BY DEF CliInv, CliTypeOK, Moves, Onward
<1>2. Frame(p)
  BY DEF Frame, Moves, At
<1>3. SessionsAccepted'
  BY DEF CliInv, SessionsAccepted, Onward
<1>4. LocalInv(p)'
  <2> SUFFICES ASSUME Alone(p)'
               PROVE  HostsMine(p)' /\ SessionMine(p)'
    BY DEF LocalInv
  <2>1. Alone(p) /\ faults' = 0
    BY <1>1, <1>2, AloneBefore DEF CliInv, Alone
  <2>2. HostsMine(p)
    BY <2>1 DEF CliInv, LocalInv
  <2>3. HostsMine(p)'
    BY <2>1, <2>2 DEF HostsMine, At
  <2>4. SessionMine(p)'
    BY <2>1 DEF SessionMine, At
  <2> QED
    BY <2>3, <2>4
<1>5. ASSUME Alone(p), Alone(p)'
      PROVE  ~HostCommandDone(p) /\ Seen(p)' = Seen(p)
  <2>1. faults' = 0
    BY <1>5 DEF Alone
  <2>2. ~HostCommandDone(p)
    BY <2>1 DEF HostCommandDone, At
  <2>3. Seen(p)' = Seen(p)
    BY <2>1 DEF Seen, At
  <2> QED
    BY <2>2, <2>3
<1> QED
  BY <1>1, <1>2, <1>3, <1>4, <1>5, StepDone

LEMMA ExitFacts ==
    ASSUME CliTypeOK, NEW p \in Terminals, NEW out \in Outs, Exit(p, out)
    PROVE  /\ Moves(p)
           /\ proc'[p] = [proc[p] EXCEPT !.at = "idle", !.out = out]
           /\ At(p, "idle")' /\ proc'[p].out = out /\ proc'[p].cmd = proc[p].cmd
<1>1. proc[p] \in Processes
  BY DEF CliTypeOK
<1>2. [proc[p] EXCEPT !.at = "idle", !.out = out] \in Processes
  BY <1>1 DEF Processes, Places
<1>3. proc' = [proc EXCEPT ![p] = [proc[p] EXCEPT !.at = "idle", !.out = out]]
  BY DEF Exit, CliTypeOK
<1>4. proc'[p] = [proc[p] EXCEPT !.at = "idle", !.out = out]
  BY <1>3 DEF CliTypeOK
<1> QED
  BY <1>1, <1>2, <1>3, <1>4 DEF Moves, At, CliTypeOK, Processes

LEMMA GotoFacts ==
    ASSUME CliTypeOK, NEW p \in Terminals, NEW at \in Places, Goto(p, at)
    PROVE  /\ Moves(p)
           /\ proc'[p] = [proc[p] EXCEPT !.at = at]
           /\ At(p, at)' /\ proc'[p].cmd = proc[p].cmd /\ proc'[p].cfg = proc[p].cfg
<1>1. proc[p] \in Processes
  BY DEF CliTypeOK
<1>2. [proc[p] EXCEPT !.at = at] \in Processes
  BY <1>1 DEF Processes
<1>3. proc' = [proc EXCEPT ![p] = [proc[p] EXCEPT !.at = at]]
  BY DEF Goto, CliTypeOK
<1>4. proc'[p] = [proc[p] EXCEPT !.at = at]
  BY <1>3 DEF CliTypeOK
<1> QED
  BY <1>1, <1>2, <1>3, <1>4 DEF Moves, At, CliTypeOK, Processes

(* A process exits without having touched a file. *)
LEMMA ExitStep ==
    ASSUME CliInv, NEW p \in Terminals, NEW out \in Outs, Exit(p, out),
           UNCHANGED <<hosts, session, accepted>>, Onward,
           At(p, "write hosts") => faults' # 0,
           out = "ok" /\ faults' = 0 =>
               /\ legacyAlias(proc[p].cmd.op) \notin {"init", "login"}
               /\ proc[p].cmd.op \notin {"add", "rm", "use"}
    PROVE  CliInv' /\ HostStep
<1>1. /\ Moves(p)
      /\ At(p, "idle")' /\ proc'[p].out = out /\ proc'[p].cmd = proc[p].cmd
  BY ExitFacts DEF CliInv
<1>2. proc'[p].out # None
  BY <1>1, FilesAssumption DEF Outs
<1>3. /\ EditAsked(p)' /\ BeyondHosts(p)' /\ SaveAccepted(p)'
      /\ ~At(p, "write hosts")' /\ ~At(p, "write session")' /\ ~At(p, "open hosts")'
  BY <1>1 DEF EditAsked, BeyondHosts, SaveAccepted, At
<1> QED
  BY <1>1, <1>2, <1>3, QuietStep

-----------------------------------------------------------------------------
(* The actions, one after the other. *)

LEMMA RunStep ==
    ASSUME CliInv, NEW p \in Terminals, NEW c \in Offered[p], Run(p, c)
    PROVE  CliInv' /\ HostStep
<1> DEFINE new == [at |-> IF c.op \in {"--help", "version"} THEN "idle" ELSE "config",
                   out |-> IF c.op \in {"--help", "version"} THEN "ok" ELSE None,
                   cmd |-> c, cfg |-> NoHosts, save |-> NoHosts, host |-> Blank,
                   user |-> None, linked |-> TRUE]
<1>1. c \in HostCommands \cup LoginCommands \cup OtherCommands
  BY OfferedAssumption
<1>2. new \in Processes
  BY <1>1, NoHostsTable, HostAssumption DEF Processes, Places, Outs
<1>3. proc' = [proc EXCEPT ![p] = new]
  BY DEF Run
<1>4. /\ new.cmd = c
      /\ new.at = IF c.op \in {"--help", "version"} THEN "idle" ELSE "config"
      /\ new.out = IF c.op \in {"--help", "version"} THEN "ok" ELSE None
  OBVIOUS
<1> HIDE DEF new
<1>5. Moves(p) /\ proc'[p] = new
  BY <1>2, <1>3 DEF Moves, CliInv, CliTypeOK
<1>6. /\ EditAsked(p)' /\ BeyondHosts(p)' /\ SaveAccepted(p)'
      /\ ~At(p, "write hosts")' /\ ~At(p, "write session")' /\ ~At(p, "open hosts")'
  BY <1>4, <1>5 DEF EditAsked, BeyondHosts, SaveAccepted, At
<1>7. At(p, "idle")' => /\ proc'[p].out = "ok"
                        /\ proc'[p].cmd.op \in {"--help", "version"}
  BY <1>4, <1>5 DEF At
<1>8. At(p, "idle")' => /\ proc'[p].out # None
                        /\ legacyAlias(proc'[p].cmd.op) \notin {"init", "login"}
                        /\ proc'[p].cmd.op \notin {"add", "rm", "use"}
  BY <1>7, FilesAssumption DEF legacyAlias
<1>9. /\ At(p, "idle") /\ hosts' = hosts /\ session' = session
      /\ Onward
  BY SameOnward DEF Run
<1>10. ~At(p, "write hosts")
  BY <1>9 DEF At
<1> QED
  BY <1>5, <1>6, <1>8, <1>9, <1>10, QuietStep

(* An edit of the hosts file that has got as far as Save. *)
Edit(p, cfg) ==
    proc' = [proc EXCEPT ![p].cfg = cfg, ![p].save = HostChange(cfg, proc[p].cmd),
                         ![p].at = "open hosts"]

LEMMA EditStep ==
    ASSUME CliInv, NEW p \in Terminals, NEW cfg \in Tables, At(p, "config"),
           cfg = IF hosts = Missing THEN NoHosts ELSE hosts,
           proc[p].cmd.op \in {"add", "rm", "use"},
           proc[p].cmd.op = "use" => proc[p].cmd.name \in DOMAIN cfg,
           Edit(p, cfg),
           UNCHANGED <<hosts, session, accepted, faults>>
    PROVE  CliInv' /\ HostStep
<1> DEFINE c   == proc[p].cmd
           new == [proc[p] EXCEPT !.cfg = cfg, !.save = HostChange(cfg, c), !.at = "open hosts"]
<1>1. proc[p] \in Processes
  BY DEF CliInv, CliTypeOK
<1>2. c \in HostCommands
  BY <1>1 DEF Processes, LoginCommands, OtherCommands, FileCommands, LegacyNames
<1>3. HostChange(cfg, c) \in Tables
  BY <1>2, HostChangeTable
<1>4. new \in Processes
  BY <1>1, <1>3 DEF Processes, Places
<1>5. /\ new.cmd = c /\ new.at = "open hosts" /\ new.cfg = cfg
      /\ new.save = HostChange(cfg, c)
  BY <1>1 DEF Processes
<1>6. proc' = [proc EXCEPT ![p] = new]
  BY DEF CliInv, CliTypeOK, Edit
<1> HIDE DEF new
<1>7. Moves(p) /\ proc'[p] = new
  BY <1>4, <1>6, MoveFacts, Zenon DEF CliInv
<1>8. /\ EditAsked(p)' /\ BeyondHosts(p)' /\ SaveAccepted(p)'
      /\ ~At(p, "write hosts")' /\ ~At(p, "write session")' /\ ~At(p, "idle")'
  BY <1>5, <1>7 DEF EditAsked, BeyondHosts, SaveAccepted, At
<1>9. hosts' = hosts /\ session' = session /\ Onward
  BY SameOnward
<1>10. ~At(p, "write hosts") /\ proc'[p].cmd = proc[p].cmd /\ proc'[p].cfg = cfg
  BY <1>5, <1>7 DEF At
<1> QED
  BY <1>7, <1>8, <1>9, <1>10, QuietStep

LEMMA LoadHostsStep ==
    ASSUME CliInv, NEW p \in Terminals, LoadHosts(p)
    PROVE  CliInv' /\ HostStep
<1> DEFINE c   == proc[p].cmd
           cfg == IF hosts = Missing THEN NoHosts ELSE hosts
<1>0. At(p, "config") /\ UNCHANGED <<hosts, session, accepted, faults>>
  BY Zenon DEF LoadHosts
<1>1. /\ At(p, "config") /\ ~At(p, "write hosts")
      /\ UNCHANGED <<hosts, session, accepted, faults>>
      /\ UNCHANGED <<hosts, session, accepted>> /\ Onward
  BY <1>0, SameOnward DEF At
<1>2. CASE Exit(p, "error")
  BY <1>1, <1>2, ExitStep DEF Outs
<1>3. CASE c.op \in {"ls", "usage"} /\ Exit(p, "ok")
  <2>1. legacyAlias(c.op) \notin {"init", "login"} /\ c.op \notin {"add", "rm", "use"}
    BY <1>3 DEF legacyAlias
  <2> QED
    BY <1>1, <1>3, <2>1, ExitStep DEF Outs
<1>4. CASE /\ hosts \notin Unreadable /\ c.op \in {"add", "rm", "use"}
           /\ c.op = "use" => c.name \in DOMAIN cfg
           /\ Edit(p, cfg)
  <2>1. cfg \in Tables
    BY <1>4, NoHostsTable DEF Unreadable, CliInv, CliTypeOK
  <2> HIDE DEF cfg
  <2>2. cfg = IF hosts = Missing THEN NoHosts ELSE hosts
    BY DEF cfg
  <2> QED
    BY <1>1, <1>4, <2>1, <2>2, EditStep
<1> QED
  BY <1>2, <1>3, <1>4, Zenon DEF LoadHosts, Edit

LEMMA LoadConfigStep ==
    ASSUME CliInv, NEW p \in Terminals, LoadConfig(p)
    PROVE  CliInv' /\ HostStep
<1> DEFINE c   == proc[p].cmd
           h   == IF hosts = Missing \/ c.op = "read" THEN Blank ELSE Get(hosts, c.env)
           at  == IF c.op \in userCommands THEN "session" ELSE "command"
           new == [proc[p] EXCEPT !.host = h, !.at = at]
<1>0. /\ At(p, "config") /\ c.op \notin {"add", "rm", "use", "ls", "usage"}
      /\ UNCHANGED <<hosts, session, accepted, faults>>
  BY Zenon DEF LoadConfig
<1>1. /\ ~At(p, "write hosts") /\ hosts' = hosts /\ session' = session
      /\ accepted' = accepted /\ Onward
  BY <1>0, SameOnward DEF At
<1>2. CASE Exit(p, "error")
  BY <1>1, <1>2, ExitStep DEF Outs
<1>3. CASE /\ hosts \notin Unreadable
           /\ proc' = [proc EXCEPT ![p].host = h, ![p].at = at]
  <2>1. proc[p] \in Processes
    BY DEF CliInv, CliTypeOK
  <2>2. h \in Entries
    BY <1>3, TableFacts, HostAssumption DEF Get, CliInv, CliTypeOK, Unreadable
  <2>3. at \in {"session", "command"}
    OBVIOUS
  <2> HIDE DEF h, at
  <2>4. new \in Processes
    BY <2>1, <2>2, <2>3 DEF Processes, Places
  <2>5. new.cmd = c /\ new.at \in {"session", "command"}
    BY <2>1, <2>3 DEF Processes
  <2>6. proc' = [proc EXCEPT ![p] = new]
    BY <1>3 DEF CliInv, CliTypeOK
  <2> HIDE DEF new
  <2>7. Moves(p) /\ proc'[p] = new
    BY <2>4, <2>6, MoveFacts DEF CliInv
  <2>8. /\ EditAsked(p)' /\ BeyondHosts(p)' /\ SaveAccepted(p)'
        /\ ~At(p, "write hosts")' /\ ~At(p, "write session")' /\ ~At(p, "idle")'
        /\ ~At(p, "open hosts")' /\ proc'[p].cmd = proc[p].cmd
    BY <1>0, <2>5, <2>7 DEF EditAsked, BeyondHosts, SaveAccepted, At
  <2> QED
    BY <1>1, <2>7, <2>8, QuietStep
<1> QED
  BY <1>2, <1>3, Zenon DEF LoadConfig

LEMMA LoadSessionStep ==
    ASSUME CliInv, NEW p \in Terminals, LoadSession(p)
    PROVE  CliInv' /\ HostStep
<1> DEFINE new == [proc[p] EXCEPT !.user = session, !.at = "get user"]
<1>0. At(p, "session") /\ UNCHANGED <<hosts, session, accepted, faults>>
  BY Zenon DEF LoadSession
<1>1. /\ ~At(p, "write hosts") /\ hosts' = hosts /\ session' = session
      /\ accepted' = accepted /\ Onward
  BY <1>0, SameOnward DEF At
<1>2. CASE Exit(p, "error")
  BY <1>1, <1>2, ExitStep DEF Outs
<1>3. CASE /\ session \notin Unreadable \cup {Missing}
           /\ proc' = [proc EXCEPT ![p].user = session, ![p].at = "get user"]
  <2>1. proc[p] \in Processes
    BY DEF CliInv, CliTypeOK
  <2>2. session \in Logins
    BY <1>3 DEF CliInv, CliTypeOK, Unreadable
  <2>4. new \in Processes
    BY <2>1, <2>2 DEF Processes, Places
  <2>5. new.cmd = proc[p].cmd /\ new.at = "get user"
    BY <2>1 DEF Processes
  <2>6. proc' = [proc EXCEPT ![p] = new]
    BY <1>3 DEF CliInv, CliTypeOK
  <2> HIDE DEF new
  <2>7. Moves(p) /\ proc'[p] = new
    BY <2>4, <2>6, MoveFacts DEF CliInv
  <2>8. /\ EditAsked(p)' /\ BeyondHosts(p)' /\ SaveAccepted(p)'
        /\ ~At(p, "write hosts")' /\ ~At(p, "write session")' /\ ~At(p, "idle")'
        /\ ~At(p, "open hosts")' /\ proc'[p].cmd = proc[p].cmd
    BY <1>0, <2>5, <2>7 DEF EditAsked, BeyondHosts, SaveAccepted, At, CliInv, LocalInv
  <2> QED
    BY <1>1, <2>7, <2>8, QuietStep
<1> QED
  BY <1>2, <1>3, Zenon DEF LoadSession

LEMMA SessionUserStep ==
    ASSUME CliInv, NEW p \in Terminals, SessionUser(p)
    PROVE  CliInv' /\ HostStep
<1>0. At(p, "get user") /\ UNCHANGED <<hosts, session, accepted, faults>>
  BY Zenon DEF SessionUser
<1>1. /\ ~At(p, "write hosts") /\ hosts' = hosts /\ session' = session
      /\ accepted' = accepted /\ Onward
  BY <1>0, SameOnward DEF At
<1>2. CASE \E out \in {"panic", "error"} : Exit(p, out)
  <2>1. PICK out \in Outs : out # "ok" /\ Exit(p, out)
    BY <1>2 DEF Outs
  <2> QED
    BY <1>1, <2>1, ExitStep
<1>3. CASE Goto(p, "command")
  <2>1. Moves(p) /\ At(p, "command")' /\ proc'[p].cmd = proc[p].cmd
    BY <1>3, GotoFacts DEF CliInv, Places
  <2>2. /\ EditAsked(p)' /\ BeyondHosts(p)' /\ SaveAccepted(p)'
        /\ ~At(p, "write hosts")' /\ ~At(p, "write session")' /\ ~At(p, "idle")'
        /\ ~At(p, "open hosts")'
    BY <1>0, <2>1 DEF EditAsked, BeyondHosts, SaveAccepted, At, CliInv, LocalInv
  <2> QED
    BY <1>1, <2>1, <2>2, QuietStep
<1> QED
  BY <1>2, <1>3, Zenon DEF SessionUser

(* A command that ends as an error, or has nothing to do with the hosts    *)
(* and the session.                                                        *)
LEMMA CommandExit ==
    ASSUME CliInv, NEW p \in Terminals, NEW out \in Outs, Exit(p, out), At(p, "command"),
           UNCHANGED <<hosts, session, accepted, faults>>,
           out = "ok" => legacyAlias(proc[p].cmd.op) \notin {"init", "login"}
    PROVE  CliInv' /\ HostStep
<1>1. ~At(p, "write hosts") /\ UNCHANGED <<hosts, session, accepted>> /\ Onward
  BY SameOnward DEF At
<1>2. proc[p].cmd.op \notin {"add", "rm", "use"}
  BY DEF At, CliInv, LocalInv, BeyondHosts
<1> QED
  BY <1>1, <1>2, ExitStep

LEMMA BadFlagsStep ==
    ASSUME CliInv, NEW p \in Terminals, BadFlags(p)
    PROVE  CliInv' /\ HostStep
BY CommandExit DEF BadFlags, Outs

LEMMA cmdFileStep ==
    ASSUME CliInv, NEW p \in Terminals, cmdFile(p)
    PROVE  CliInv' /\ HostStep
<1>1. legacyAlias(proc[p].cmd.op) \notin {"init", "login"}
  BY DEF cmdFile, FileCommands
<1>2. PICK out \in Outs : Exit(p, out)
  BY DEF cmdFile, Outs
<1> QED
  BY <1>1, <1>2, CommandExit DEF cmdFile

LEMMA cmdReadStep ==
    ASSUME CliInv, NEW p \in Terminals, cmdRead(p)
    PROVE  CliInv' /\ HostStep
<1>1. legacyAlias(proc[p].cmd.op) \notin {"init", "login"}
  BY DEF cmdRead, legacyAlias
<1>2. PICK out \in Outs : Exit(p, out)
  BY DEF cmdRead, Outs
<1> QED
  BY <1>1, <1>2, CommandExit DEF cmdRead

LEMMA cmdHelpStep ==
    ASSUME CliInv, NEW p \in Terminals, cmdHelp(p)
    PROVE  CliInv' /\ HostStep
<1>1. legacyAlias(proc[p].cmd.op) \notin {"init", "login"}
  BY DEF cmdHelp, legacyAlias
<1> QED
  BY <1>1, CommandExit DEF cmdHelp, Outs

(* The credentials of init and login are a login. *)
LEMMA CredentialsLogin ==
    ASSUME CliInv, NEW p \in Terminals, legacyAlias(proc[p].cmd.op) \in {"init", "login"}
    PROVE  proc[p].cmd \in LoginCommands /\ Credentials(p) \in Logins
<1>1. proc[p].cmd \in HostCommands \cup LoginCommands \cup OtherCommands
  BY DEF CliInv, CliTypeOK, Processes
<1>2. proc[p].cmd.op \in {"init", "login", "inituser", "getuser"}
  BY DEF legacyAlias
<1>3. proc[p].cmd \in LoginCommands
  BY <1>1, <1>2 DEF HostCommands, OtherCommands, FileCommands, LegacyNames
<1> QED
  BY <1>3 DEF LoginCommands, Credentials, Logins

(* The credentials are accepted, and the session is to be saved. *)
LEMMA AcceptStep ==
    ASSUME CliInv, NEW p \in Terminals, At(p, "command"),
           legacyAlias(proc[p].cmd.op) \in {"init", "login"},
           accepted' = accepted \cup {Credentials(p)}, Goto(p, "open session"),
           UNCHANGED <<hosts, session, faults>>
    PROVE  CliInv' /\ HostStep
<1>1. /\ Moves(p) /\ At(p, "open session")' /\ proc'[p].cmd = proc[p].cmd
  BY GotoFacts DEF CliInv, Places
<1>2. ~At(p, "write hosts") /\ hosts' = hosts /\ session' = session
  BY DEF At
<1>5. Onward
  <2>1. Credentials(p) \in Logins
    BY CredentialsLogin
  <2>2. faults' = faults
    OBVIOUS
  <2>3. faults \in Nat /\ accepted \subseteq Logins
    BY Zenon DEF CliInv, CliTypeOK
  <2>4. faults' \in Nat /\ faults <= faults'
    BY <2>2, <2>3, NoMoreFaults, Zenon
  <2>5. accepted \subseteq accepted' /\ accepted' \subseteq Logins
    BY <2>1, <2>3
  <2> QED
    BY <2>4, <2>5 DEF Onward
<1>3. SaveAccepted(p)'
  <2>1. Credentials(p)' = Credentials(p)
    BY <1>1 DEF Credentials
  <2> QED
    BY <1>1, <2>1, CredentialsLogin DEF SaveAccepted
<1>4. /\ EditAsked(p)' /\ BeyondHosts(p)'
      /\ ~At(p, "write hosts")' /\ ~At(p, "write session")' /\ ~At(p, "idle")'
      /\ ~At(p, "open hosts")'
  BY <1>1 DEF EditAsked, BeyondHosts, At, CliInv, LocalInv
<1> QED
  BY <1>1, <1>2, <1>3, <1>4, <1>5, QuietStep

LEMMA cmdLoginStep ==
    ASSUME CliInv, NEW p \in Terminals, cmdLogin(p)
    PROVE  CliInv' /\ HostStep
<1>1. CASE accepted' = accepted \cup {Credentials(p)} /\ Goto(p, "open session")
  BY <1>1, AcceptStep DEF cmdLogin
<1>2. CASE UNCHANGED accepted /\ \E out \in {"panic", "error"} : Exit(p, out)
  <2>1. PICK out \in Outs : out # "ok" /\ Exit(p, out)
    BY <1>2 DEF Outs
  <2> QED
    BY <1>2, <2>1, CommandExit DEF cmdLogin
<1> QED
  BY <1>1, <1>2 DEF cmdLogin

LEMMA cmdInitStep ==
    ASSUME CliInv, NEW p \in Terminals, cmdInit(p)
    PROVE  CliInv' /\ HostStep
<1>1. CASE accepted' = accepted \cup {Credentials(p)} /\ Goto(p, "open session")
  BY <1>1, AcceptStep DEF cmdInit
<1>2. CASE UNCHANGED accepted /\ \E out \in {"panic", "error"} : Exit(p, out)
  <2>1. PICK out \in Outs : out # "ok" /\ Exit(p, out)
    BY <1>2 DEF Outs
  <2> QED
    BY <1>2, <2>1, CommandExit DEF cmdInit
<1> QED
  BY <1>1, <1>2 DEF cmdInit

LEMMA DieStep ==
    ASSUME CliInv, NEW p \in Terminals, Die(p)
    PROVE  CliInv' /\ HostStep
<1>1. Onward /\ faults' # 0
  BY FaultOnward DEF Die
<1> QED
  BY <1>1, ExitStep DEF Die, Outs

LEMMA FileFailsStep ==
    ASSUME CliInv, NEW p \in Terminals, FileFails(p)
    PROVE  CliInv' /\ HostStep
<1>1. Onward /\ faults' # 0
  BY FaultOnward DEF FileFails
<1>2. PICK out \in Outs : Exit(p, out)
  BY DEF FileFails, Outs
<1> QED
  BY <1>1, <1>2, ExitStep DEF FileFails

-----------------------------------------------------------------------------
(* The steps that change a file. *)

LEMMA OpenHostsStep ==
    ASSUME CliInv, NEW p \in Terminals, OpenHosts(p)
    PROVE  CliInv' /\ HostStep
<1>1. /\ Moves(p) /\ At(p, "write hosts")' /\ proc'[p].cmd = proc[p].cmd
      /\ proc'[p].cfg = proc[p].cfg
      /\ proc'[p] = [proc[p] EXCEPT !.at = "write hosts"]
  BY GotoFacts DEF OpenHosts, CliInv, Places
<1>2. proc'[p].save = proc[p].save
  BY <1>1 DEF CliInv, CliTypeOK, Processes
<1>3. /\ At(p, "open hosts") /\ hosts' = Empty /\ session' = session
      /\ accepted' = accepted /\ faults' = faults
  BY DEF OpenHosts
<1>4. CliTypeOK'
  BY <1>1, <1>3 DEF CliInv, CliTypeOK, Moves
<1>5. Frame(p)
  BY <1>1, <1>3, SameOnward DEF Frame, Moves, At
<1>6. SessionsAccepted'
  BY <1>3 DEF CliInv, SessionsAccepted
<1>7. LocalInv(p)'
  <2>1. EditAsked(p)
    BY DEF CliInv, LocalInv
  <2>2. EditAsked(p)'
    BY <1>1, <1>2, <1>3, <2>1 DEF EditAsked, At
  <2>3. BeyondHosts(p)' /\ SaveAccepted(p)' /\ HostsMine(p)' /\ SessionMine(p)'
    BY <1>1, <1>3 DEF BeyondHosts, SaveAccepted, HostsMine, SessionMine, At
  <2> QED
    BY <2>2, <2>3 DEF LocalInv
<1>8. ASSUME Alone(p)
      PROVE  ~HostCommandDone(p) /\ Seen(p)' = Seen(p)
  <2>1. HostsMine(p)
    BY <1>8 DEF CliInv, LocalInv
  <2> QED
    BY <1>1, <1>3, <2>1 DEF HostCommandDone, Seen, HostsMine, At
<1> QED
  BY <1>4, <1>5, <1>6, <1>7, <1>8, StepDone

LEMMA WriteHostsStep ==
    ASSUME CliInv, NEW p \in Terminals, WriteHosts(p)
    PROVE  CliInv' /\ HostStep
<1>1. Moves(p) /\ At(p, "idle")' /\ proc'[p].out = "ok" /\ proc'[p].cmd = proc[p].cmd
  BY ExitFacts DEF WriteHosts, CliInv, Outs
<1>2. /\ At(p, "write hosts") /\ session' = session
      /\ accepted' = accepted /\ faults' = faults
      /\ hosts' \in Overwritten(hosts, proc[p].save)
  BY DEF WriteHosts
<1>3. proc[p].save \in Tables /\ proc[p].cfg \in Tables
      /\ proc[p].cmd \in HostCommands \cup LoginCommands \cup OtherCommands
  BY DEF CliInv, CliTypeOK, Processes
<1>4. hosts' \in {proc[p].save, Torn}
  BY <1>2 DEF Overwritten
<1>5. CliTypeOK'
  BY <1>1, <1>2, <1>3, <1>4 DEF CliInv, CliTypeOK, Moves
<1>6. Frame(p)
  BY <1>1, <1>2, FilesAssumption, SameOnward DEF Frame, Moves, At
<1>7. SessionsAccepted'
  BY <1>2 DEF CliInv, SessionsAccepted
<1>8. /\ proc[p].cmd.op \in {"add", "rm", "use"}
      /\ proc[p].cmd.op = "use" => proc[p].cmd.name \in DOMAIN proc[p].cfg
      /\ proc[p].save = HostChange(proc[p].cfg, proc[p].cmd)
  BY <1>2 DEF CliInv, LocalInv, EditAsked
<1>9. ASSUME Alone(p)
      PROVE  hosts' = proc[p].save
  <2>1. hosts = Empty
    BY <1>2, <1>9 DEF CliInv, LocalInv, HostsMine
  <2> QED
    BY <1>2, <2>1 DEF Overwritten
<1>10. LocalInv(p)'
  <2>1. EditAsked(p)' /\ BeyondHosts(p)' /\ SaveAccepted(p)'
    BY <1>1 DEF EditAsked, BeyondHosts, SaveAccepted, At
  <2>2. ASSUME Alone(p)' PROVE Alone(p)
    BY <1>5, <1>6, <2>2, AloneBefore DEF CliInv
  <2>3. SessionMine(p)'
    BY <1>1, <1>8 DEF SessionMine, At, legacyAlias
  <2>4. ASSUME Alone(p)' PROVE HostsMine(p)'
    BY <1>1, <1>3, <1>9, <2>2, <2>4 DEF HostsMine, At
  <2> QED
    BY <2>1, <2>3, <2>4 DEF LocalInv
<1>11. ASSUME Alone(p), Alone(p)'
       PROVE  /\ HostCommandDone(p)
              /\ \/ Hosts!TableNext /\ Hosts!Do(proc[p].cmd)
                 \/ UsesDefault(proc[p].cmd)
  <2> DEFINE c == proc[p].cmd
             t == proc[p].cfg
  <2>1. SeenTable = t
    BY <1>2, <1>11, SeenAlone DEF Seen
  <2>2. CliInv'
    BY <1>5, <1>6, <1>7, <1>10, LocalStep
  <2>3. Seen(p)' = proc[p].save
    BY <1>1, <1>3, <1>9, <1>11, FilesAssumption DEF Seen, At
  <2>4. SeenTable' = proc[p].save
    BY <1>11, <2>2, <2>3, SeenAloneNext
  <2>5. HostCommandDone(p)
    BY <1>1, <1>2, <1>8 DEF HostCommandDone, At
  <2>6. SeenTable' = HostChange(t, c)
    BY <1>8, <2>4
  <2>7. c \in HostCommands
    BY <1>3, <1>8 DEF LoginCommands, OtherCommands, FileCommands, LegacyNames
  <2>8. c \in [op : {"add"}, name : Names, entry : Entries] \cup [op : {"rm", "use"}, name : Names]
    BY <1>8, <2>7 DEF HostCommands
  <2>9. ASSUME ~UsesDefault(c) PROVE Hosts!Do(c)
    <3> HIDE DEF c, t
    <3>0. c.op \in {"add", "rm", "use"} /\ (c.op = "use" => c.name \in DOMAIN t)
      BY <1>8 DEF c, t
    <3>1. CASE c.op = "add"
      BY <2>1, <2>6, <3>1 DEF HostChange, Put, Hosts!Do, Hosts!Add, Hosts!Put
    <3>2. CASE c.op = "rm"
      BY <2>1, <2>6, <3>2 DEF HostChange, Remove, Hosts!Do, Hosts!Rm, Hosts!Drop, Restrict, Hosts!Restrict
    <3>3. CASE c.op = "use"
      BY <2>1, <2>6, <2>9, <3>0, <3>3
         DEF HostChange, UsesDefault, Put, Remove, Hosts!Do, Hosts!Use, Hosts!Put, Hosts!Drop,
             Restrict, Hosts!Restrict
    <3> QED
      BY <3>0, <3>1, <3>2, <3>3
  <2> QED
    BY <2>5, <2>8, <2>9 DEF Hosts!TableNext
<1> QED
  BY <1>5, <1>6, <1>7, <1>10, <1>11, StepDone

LEMMA OpenSessionStep ==
    ASSUME CliInv, NEW p \in Terminals, OpenSession(p)
    PROVE  CliInv' /\ HostStep
<1> DEFINE new == [proc[p] EXCEPT !.at = "write session", !.linked = TRUE]
<1>1. proc[p] \in Processes
  BY DEF CliInv, CliTypeOK
<1>2. new \in Processes
  BY <1>1 DEF Processes, Places
<1>3. new.at = "write session" /\ new.cmd = proc[p].cmd /\ new.linked
  BY <1>1 DEF Processes
<1>4. proc' = [proc EXCEPT ![p] = new]
  BY DEF OpenSession, CliInv, CliTypeOK
<1> HIDE DEF new
<1>5. Moves(p) /\ proc'[p] = new
  BY <1>2, <1>4, MoveFacts DEF CliInv
<1>6. /\ At(p, "open session") /\ hosts' = hosts /\ session' = Empty
      /\ accepted' = accepted /\ faults' = faults
  BY Zenon DEF OpenSession
<1>7. CliTypeOK'
  BY <1>5, <1>6 DEF CliInv, CliTypeOK, Moves
<1>8. Frame(p)
  BY <1>3, <1>5, <1>6, SameOnward DEF Frame, Moves
<1>9. SessionsAccepted'
  BY <1>6 DEF SessionsAccepted, Unreadable
<1>10. EditAsked(p)' /\ BeyondHosts(p)' /\ SaveAccepted(p)' /\ SessionMine(p)'
  BY <1>3, <1>5, <1>6
     DEF CliInv, LocalInv, EditAsked, BeyondHosts, SaveAccepted, SessionMine, At, Credentials
<1>11. ASSUME Alone(p)' PROVE HostsMine(p)'
  <2>1. HostsMine(p)
    BY <1>7, <1>8, <1>11, AloneBefore DEF CliInv, LocalInv
  <2> QED
    BY <1>3, <1>5, <1>6, <2>1 DEF HostsMine, At
<1>12. LocalInv(p)'
  BY <1>10, <1>11 DEF LocalInv
<1>13. ~HostCommandDone(p) /\ Seen(p)' = Seen(p)
  BY <1>3, <1>5, <1>6 DEF HostCommandDone, Seen, At
<1> QED
  BY <1>7, <1>8, <1>9, <1>12, <1>13, StepDone

LEMMA WriteSessionStep ==
    ASSUME CliInv, NEW p \in Terminals, WriteSession(p)
    PROVE  CliInv' /\ HostStep
<1>1. Moves(p) /\ At(p, "idle")' /\ proc'[p].out = "ok" /\ proc'[p].cmd = proc[p].cmd
  BY ExitFacts DEF WriteSession, CliInv, Outs
<1>2. /\ At(p, "write session") /\ hosts' = hosts /\ accepted' = accepted /\ faults' = faults
      /\ IF proc[p].linked THEN session' \in Overwritten(session, Credentials(p))
         ELSE session' = session
  BY DEF WriteSession
<1>3. /\ proc[p].cmd \in LoginCommands /\ Credentials(p) \in accepted
  BY <1>2 DEF CliInv, LocalInv, SaveAccepted
<1>4. Credentials(p) \in Logins
  BY <1>3 DEF CliInv, CliTypeOK
<1>5. session' \in {session, Credentials(p), Torn}
  BY <1>2 DEF Overwritten
<1>6. CliTypeOK'
  BY <1>1, <1>2, <1>4, <1>5 DEF CliInv, CliTypeOK, Moves
<1>7. Frame(p)
  BY <1>1, <1>2, FilesAssumption, SameOnward DEF Frame, Moves, At
<1>8. SessionsAccepted'
  BY <1>2, <1>3, <1>5 DEF CliInv, SessionsAccepted, Unreadable
<1>9. proc[p].cmd.op \notin {"add", "rm", "use"}
  BY <1>3 DEF LoginCommands
<1>10. EditAsked(p)' /\ BeyondHosts(p)' /\ SaveAccepted(p)'
  BY <1>1 DEF EditAsked, BeyondHosts, SaveAccepted, At
<1>11. ASSUME Alone(p)' PROVE HostsMine(p)' /\ SessionMine(p)'
  <2>1. HostsMine(p) /\ SessionMine(p)
    BY <1>6, <1>7, <1>11, AloneBefore DEF CliInv, LocalInv
  <2>2. HostsMine(p)'
    BY <1>1, <1>2, <2>1 DEF HostsMine, At
  <2>3. session' = Credentials(p)
    BY <1>2, <2>1 DEF SessionMine, Overwritten
  <2>4. Credentials(p)' = Credentials(p)
    BY <1>1 DEF Credentials
  <2> QED
    BY <1>1, <2>2, <2>3, <2>4 DEF SessionMine, At
<1>12. LocalInv(p)'
  BY <1>10, <1>11 DEF LocalInv
<1>13. ~HostCommandDone(p) /\ Seen(p)' = Seen(p)
  BY <1>1, <1>2, <1>9 DEF HostCommandDone, Seen, At
<1> QED
  BY <1>6, <1>7, <1>8, <1>12, <1>13, StepDone

LEMMA cmdLogoutStep ==
    ASSUME CliInv, NEW p \in Terminals, cmdLogout(p)
    PROVE  CliInv' /\ HostStep
<1>1. /\ At(p, "command") /\ proc[p].cmd.op = "logout" /\ session' = Missing
      /\ hosts' = hosts /\ accepted' = accepted /\ faults' = faults
      /\ proc' = [q \in Terminals |->
             IF q = p THEN [proc[q] EXCEPT !.at = "idle", !.out = "ok"]
             ELSE [proc[q] EXCEPT !.linked = FALSE]]
  BY DEF cmdLogout
<1>2. \A q \in Terminals :
          /\ proc[q] \in Processes
          /\ [proc[q] EXCEPT !.at = "idle", !.out = "ok"] \in Processes
          /\ [proc[q] EXCEPT !.linked = FALSE] \in Processes
  BY DEF CliInv, CliTypeOK, Processes, Places, Outs
<1>3. proc' \in [Terminals -> Processes]
  BY <1>1, <1>2
<1>4. At(p, "idle")' /\ proc'[p].out = "ok" /\ proc'[p].cmd = proc[p].cmd
  BY <1>1, <1>2 DEF At, Processes
<1>5. \A q \in Terminals \ {p} :
          /\ proc'[q].at = proc[q].at /\ proc'[q].out = proc[q].out
          /\ proc'[q].cmd = proc[q].cmd
          /\ proc'[q].cfg = proc[q].cfg /\ proc'[q].save = proc[q].save
  BY <1>1, <1>2 DEF Processes
<1>6. CliTypeOK'
  BY <1>1, <1>3 DEF CliInv, CliTypeOK
<1>7. Frame(p)
  BY <1>1, <1>4, <1>5, FilesAssumption, SameOnward DEF Frame
<1>8. SessionsAccepted'
  BY <1>1 DEF SessionsAccepted
<1>9. EditAsked(p)' /\ BeyondHosts(p)' /\ SaveAccepted(p)' /\ SessionMine(p)'
  BY <1>1, <1>4 DEF EditAsked, BeyondHosts, SaveAccepted, SessionMine, At, legacyAlias
<1>10. ASSUME Alone(p)' PROVE HostsMine(p)'
  <2>1. HostsMine(p)
    BY <1>6, <1>7, <1>10, AloneBefore DEF CliInv, LocalInv
  <2> QED
    BY <1>1, <1>4, <2>1 DEF HostsMine, At
<1>11. LocalInv(p)'
  BY <1>9, <1>10 DEF LocalInv
<1>12. ~HostCommandDone(p) /\ Seen(p)' = Seen(p)
  BY <1>1, <1>4 DEF HostCommandDone, Seen, At
<1> QED
  BY <1>6, <1>7, <1>8, <1>11, <1>12, StepDone

-----------------------------------------------------------------------------
(* The specification *)

LEMMA CliInitInv == CliInit => CliInv
<1> SUFFICES ASSUME CliInit PROVE CliInv
  OBVIOUS
<1>1. Idle \in Processes
  BY NoHostsTable, HostAssumption DEF Idle, Processes, Places, OtherCommands
<1>2. Idle.at = "idle" /\ Idle.out = None
  BY DEF Idle
<1>3. CliTypeOK
  BY <1>1 DEF CliInit, CliTypeOK
<1>4. SessionsAccepted
  BY DEF CliInit, SessionsAccepted
<1>5. ASSUME NEW p \in Terminals PROVE LocalInv(p)
  <2>1. proc[p].at = "idle" /\ proc[p].out = None
    BY <1>2 DEF CliInit
  <2>2. proc[p].out # "ok"
    BY <2>1, FilesAssumption
  <2> QED
    BY <2>1, <2>2 DEF CliInit, LocalInv, EditAsked, BeyondHosts, SaveAccepted, HostsMine,
                      SessionMine, At
<1> QED
  BY <1>3, <1>4, <1>5 DEF CliInv

LEMMA CliNextStep ==
    ASSUME CliInv, CliNext
    PROVE  CliInv' /\ HostStep
<1>1. PICK p \in Terminals : \/ \E c \in Offered[p] : Run(p, c)
                             \/ ProcessStep(p) \/ Die(p) \/ FileFails(p)
  BY DEF CliNext
<1>2. CASE \E c \in Offered[p] : Run(p, c)
  BY <1>2, RunStep
<1>3. CASE ProcessStep(p)
  BY <1>3, LoadHostsStep, OpenHostsStep, WriteHostsStep, LoadConfigStep, LoadSessionStep,
     SessionUserStep, BadFlagsStep, cmdInitStep, cmdLoginStep, cmdLogoutStep, cmdFileStep,
     cmdReadStep, cmdHelpStep, OpenSessionStep, WriteSessionStep
     DEF ProcessStep
<1>4. CASE Die(p) \/ FileFails(p)
  BY <1>4, DieStep, FileFailsStep
<1> QED
  BY <1>1, <1>2, <1>3, <1>4

LEMMA CliStutter ==
    ASSUME CliInv, UNCHANGED cliVars
    PROVE  CliInv'
BY DEF CliInv, cliVars, CliTypeOK, SessionsAccepted, LocalInv, EditAsked, BeyondHosts,
       SaveAccepted, Alone, Unused, HostsMine, SessionMine, At, Credentials

(* For any number of terminals, hosts, users, commands and faults: the     *)
(* invariant of the files and the processes that use them.                 *)
THEOREM CliInductive == CliSpec => []CliInv
<1>1. CliInv /\ [CliNext]_cliVars => CliInv'
  BY CliNextStep, CliStutter
<1> QED
  BY <1>1, CliInitInv, PTL DEF CliSpec

(* A session that a file command logs in with is one that a user service   *)
(* has accepted, whatever logins, logouts and deaths came between.         *)
THEOREM SessionsAreAccepted == CliSpec => []SessionsAccepted
<1>1. CliInv => SessionsAccepted
  BY DEF CliInv
<1> QED
  BY <1>1, CliInductive, PTL

(* A login that says ok is the session until the next command of that      *)
(* terminal, when nothing has failed and no other terminal is in use.      *)
THEOREM LoginsStick == CliSpec => []LoginSticks
<1>1. CliInv => LoginSticks
  BY DEF CliInv, LocalInv, SessionMine, LoginSticks
<1> QED
  BY <1>1, CliInductive, PTL

(* The host commands of one terminal, each a load, a truncation and a      *)
(* write of the file, are add, rm and use of one table (use with another   *)
(* name than default).                                                     *)
THEOREM HostCommandsRefineTable == CliSpec => ImplementsHostTable
<1>1. CliInit => Hosts!TableInit
  BY DEF CliInit, SeenTable, NoHosts, Hosts!TableInit
<1>2. CliInv /\ [CliNext]_cliVars => [HostStep]_cliVars
  BY CliNextStep
<1> QED
  BY <1>1, <1>2, CliInductive, PTL DEF CliSpec, ImplementsHostTable
=============================================================================
