---------------------------- MODULE CommandLine ----------------------------
(***************************************************************************)
(* The sharelock command: every command is a process of its own, and what  *)
(* one leaves for the next is in two files, .hosts and .session, and on    *)
(* the servers.  Several terminals of one user share both files.           *)
(*                                                                         *)
(* One step is one access to a file or one call of the user service.  A    *)
(* file is replaced by os.WriteFile: the open truncates it, the write      *)
(* follows, so a second process or a death can come in between.  What the  *)
(* user and file services do on the server is in ShareLock, Registration   *)
(* and ConcurrentClients; here a server is the accounts it holds.          *)
(***************************************************************************)
EXTENDS Naturals, Functions

CONSTANTS
    Terminals,
    Names, Default,       \* host names, one of them "default"
    Entries, Blank,       \* servers' addresses with their TLS flag; Blank has Addr ""
    Serving,              \* the addresses a server answers at
    Users, Passwords,
    Offered,              \* [Terminals -> the command lines entered there]
    Missing, Empty, Torn, \* no file; truncated; two texts written over each other
    None,
    MaxCommands, MaxFaults  \* bounds

ASSUME HostAssumption ==
    /\ Default \in Names /\ Blank \in Entries /\ Serving \subseteq Entries \ {Blank}
    /\ {MaxCommands, MaxFaults} \subseteq Nat

(* The command lines there are: main's switch and hostCmd's. *)
FileCommands == {"store", "load", "append", "share", "accept", "revoke", "list"}
LegacyNames  == {"storefile", "loadfile", "appendtofile", "createinvitation",
                 "acceptinvitation", "revokeaccess"}

HostCommands == [op : {"add"}, name : Names, entry : Entries]
                    \cup [op : {"rm", "use"}, name : Names]
                    \cup [op : {"ls", "usage"}]
LoginCommands == [op : {"init", "login", "inituser", "getuser"},
                  user : Users, password : Passwords, env : Names]
OtherCommands == [op : FileCommands \cup LegacyNames
                           \cup {"--help", "version", "help", "unknown", "logout", "read"},
                  env : Names]

ASSUME OfferedAssumption ==
    \A p \in Terminals : Offered[p] \subseteq HostCommands \cup LoginCommands \cup OtherCommands

(* What the two files can hold: a table of hosts, a login. *)
Tables == UNION {[listed -> Entries] : listed \in SUBSET Names}
Logins == [user : Users, password : Passwords]

ASSUME FilesAssumption ==
    /\ {Missing, Empty, Torn} \cap (Tables \cup Logins) = {}
    /\ Missing # Empty /\ Missing # Torn
    /\ None \notin Logins \cup {"ok", "error", "panic", "died"}

VARIABLES
    hosts,      \* the .hosts file
    session,    \* the .session file
    accounts,   \* on each server: the password each user registered with
    proc,       \* the command each terminal runs, or ran last
    accepted,   \* credentials a user service has accepted so far
    commands, faults

cliVars == <<hosts, session, accounts, proc, accepted, commands, faults>>

(* The commands main asks a session for; a legacy name is not one of them. *)
userCommands == FileCommands

legacyAlias(op) ==
    CASE op = "inituser"         -> "init"
      [] op = "getuser"          -> "login"
      [] op = "storefile"        -> "store"
      [] op = "loadfile"         -> "load"
      [] op = "appendtofile"     -> "append"
      [] op = "createinvitation" -> "share"
      [] op = "acceptinvitation" -> "accept"
      [] op = "revokeaccess"     -> "revoke"
      [] OTHER                   -> op

Unreadable == {Empty, Torn}
Get(cfg, n)    == IF n \in DOMAIN cfg THEN cfg[n] ELSE Blank
Put(cfg, n, e) == [x \in DOMAIN cfg \cup {n} |-> IF x = n THEN e ELSE cfg[x]]
Remove(cfg, n) == Restrict(cfg, DOMAIN cfg \ {n})

NoHosts == [n \in {} |-> Blank]

(* Process p exits; its command and what it read stay visible. *)
Exit(p, out) == proc' = [proc EXCEPT ![p].at = "idle", ![p].out = out]
Goto(p, at)  == proc' = [proc EXCEPT ![p].at = at]
At(p, at)    == proc[p].at = at

-----------------------------------------------------------------------------
(* A command line is entered; --help (or -h) and version exit here. *)
Run(p, c) ==
    /\ At(p, "idle") /\ commands < MaxCommands
    /\ commands' = commands + 1
    /\ proc' = [proc EXCEPT ![p] =
           [at |-> IF c.op \in {"--help", "version"} THEN "idle" ELSE "config",
            out |-> IF c.op \in {"--help", "version"} THEN "ok" ELSE None,
            cmd |-> c, cfg |-> NoHosts, save |-> NoHosts, host |-> Blank,
            user |-> None, linked |-> TRUE]]
    /\ UNCHANGED <<hosts, session, accounts, accepted, faults>>

(* Slip: use looks the name up after it has made room for it. *)
HostChangeUse(cfg, c) ==
    CASE c.op = "add" -> Put(cfg, c.name, c.entry)
      [] c.op = "rm"  -> Remove(cfg, c.name)
      [] c.op = "use" -> Put(cfg, Default, Get(Remove(cfg, c.name), c.name))

(* hostCmd: what the subcommand leaves in the process's copy of the table. *)
HostChange(cfg, c) ==
    CASE c.op = "add" -> Put(cfg, c.name, c.entry)
      [] c.op = "rm"  -> Remove(cfg, c.name)
      [] c.op = "use" -> Remove(Put(cfg, Default, cfg[c.name]), c.name)

(* config.Load, and hostCmd up to its Save. *)
LoadHosts(p) ==
    LET c   == proc[p].cmd
        cfg == IF hosts = Missing THEN NoHosts ELSE hosts
    IN  /\ At(p, "config") /\ c.op \in {"add", "rm", "use", "ls", "usage"}
        /\ \/ /\ \/ hosts \in Unreadable
                 \/ hosts \notin Unreadable /\ c.op = "use" /\ c.name \notin DOMAIN cfg
              /\ Exit(p, "error")
           \/ /\ hosts \notin Unreadable /\ c.op \in {"ls", "usage"}
              /\ Exit(p, "ok")
           \/ /\ hosts \notin Unreadable /\ c.op \in {"add", "rm", "use"}
              /\ c.op = "use" => c.name \in DOMAIN cfg
              /\ proc' = [proc EXCEPT ![p].cfg = cfg, ![p].save = HostChange(cfg, c),
                                      ![p].at = "open hosts"]
        /\ UNCHANGED <<hosts, session, accounts, accepted, commands, faults>>

(* config.Load, and the server main connects to: Blank is the process's    *)
(* own memory.                                                             *)
LoadConfig(p) ==
    LET c == proc[p].cmd
    IN  /\ At(p, "config") /\ c.op \notin {"add", "rm", "use", "ls", "usage"}
        /\ \/ hosts \in Unreadable /\ Exit(p, "error")
           \/ /\ hosts \notin Unreadable
              /\ proc' = [proc EXCEPT
                     ![p].host = IF hosts = Missing \/ c.op = "read" THEN Blank
                                 ELSE Get(hosts, c.env),
                     ![p].at = IF c.op \in userCommands THEN "session" ELSE "command"]
        /\ UNCHANGED <<hosts, session, accounts, accepted, commands, faults>>

-----------------------------------------------------------------------------
(* os.WriteFile over what the file holds: a text left by another process   *)
(* may stick out behind the new one.                                       *)
Overwritten(old, new) ==
    IF old \in {Missing, Empty, new} THEN {new} ELSE {new, Torn}

(* Config.Save: the open truncates, the write follows. *)
OpenHosts(p) ==
    /\ At(p, "open hosts")
    /\ hosts' = Empty
    /\ Goto(p, "write hosts")
    /\ UNCHANGED <<session, accounts, accepted, commands, faults>>

WriteHosts(p) ==
    /\ At(p, "write hosts")
    /\ hosts' \in Overwritten(hosts, proc[p].save)
    /\ Exit(p, "ok")
    /\ UNCHANGED <<session, accounts, accepted, commands, faults>>

-----------------------------------------------------------------------------
(* UserService.GetUser at the process's host: its own memory holds nobody, *)
(* and a host that does not answer makes userlib panic.                    *)
Panics(p) == proc[p].host \notin Serving \cup {Blank}

GetUser(p, u, pw) == proc[p].host \in Serving /\ accounts[proc[p].host][u] = pw

(* config.LoadSession, then GetUser with what it holds. *)
LoadSession(p) ==
    /\ At(p, "session")
    /\ IF session \in Unreadable \cup {Missing} THEN Exit(p, "error")
       ELSE proc' = [proc EXCEPT ![p].user = session, ![p].at = "get user"]
    /\ UNCHANGED <<hosts, session, accounts, accepted, commands, faults>>

SessionUser(p) ==
    LET s == proc[p].user
    IN  /\ At(p, "get user")
        /\ \/ Panics(p) /\ Exit(p, "panic")
           \/ ~Panics(p) /\ ~GetUser(p, s.user, s.password) /\ Exit(p, "error")
           \/ GetUser(p, s.user, s.password) /\ Goto(p, "command")
        /\ UNCHANGED <<hosts, session, accounts, accepted, commands, faults>>

(* The command is unknown, a flag is missing, or the local file of store   *)
(* cannot be read.                                                         *)
BadFlags(p) ==
    /\ At(p, "command") /\ legacyAlias(proc[p].cmd.op) \notin {"logout", "list", "help"}
    /\ Exit(p, "error")
    /\ UNCHANGED <<hosts, session, accounts, accepted, commands, faults>>

Credentials(p) == [user |-> proc[p].cmd.user, password |-> proc[p].cmd.password]

(* Slip: the session is saved whether or not the credentials are right. *)
cmdLoginUnchecked(p) ==
    /\ At(p, "command") /\ legacyAlias(proc[p].cmd.op) = "login"
    /\ IF Panics(p) THEN Exit(p, "panic") ELSE Goto(p, "open session")
    /\ UNCHANGED <<hosts, session, accounts, accepted, commands, faults>>

cmdLogin(p) ==
    LET c == proc[p].cmd
    IN  /\ At(p, "command") /\ legacyAlias(c.op) = "login"
        /\ \/ /\ GetUser(p, c.user, c.password)
              /\ accepted' = accepted \cup {Credentials(p)}
              /\ Goto(p, "open session")
           \/ /\ ~GetUser(p, c.user, c.password)
              /\ Exit(p, IF Panics(p) THEN "panic" ELSE "error")
              /\ UNCHANGED accepted
        /\ UNCHANGED <<hosts, session, accounts, commands, faults>>

(* InitUser on a server, or in memory, where every name is free and the    *)
(* account ends with the process.                                          *)
cmdInit(p) ==
    LET c == proc[p].cmd
        h == proc[p].host
    IN  /\ At(p, "command") /\ legacyAlias(c.op) = "init"
        /\ \/ /\ h \in Serving => accounts[h][c.user] = None
              /\ ~Panics(p)
              /\ accounts' = IF h \in Serving
                             THEN [accounts EXCEPT ![h][c.user] = c.password] ELSE accounts
              /\ accepted' = accepted \cup {Credentials(p)}
              /\ Goto(p, "open session")
           \/ /\ Panics(p) \/ (h \in Serving /\ accounts[h][c.user] # None)
              /\ Exit(p, IF Panics(p) THEN "panic" ELSE "error")
              /\ UNCHANGED <<accounts, accepted>>
        /\ UNCHANGED <<hosts, session, commands, faults>>

-----------------------------------------------------------------------------
(* Slip: only the first login of a machine is saved. *)
OpenSessionOnce(p) ==
    /\ At(p, "open session")
    /\ IF session = Missing
       THEN session' = Empty
            /\ proc' = [proc EXCEPT ![p].at = "write session", ![p].linked = TRUE]
       ELSE Exit(p, "ok") /\ UNCHANGED session
    /\ UNCHANGED <<hosts, accounts, accepted, commands, faults>>

(* config.SaveSession; its error is dropped. *)
OpenSession(p) ==
    /\ At(p, "open session")
    /\ session' = Empty
    /\ proc' = [proc EXCEPT ![p].at = "write session", ![p].linked = TRUE]
    /\ UNCHANGED <<hosts, accounts, accepted, commands, faults>>

WriteSession(p) ==
    /\ At(p, "write session")
    /\ IF proc[p].linked THEN session' \in Overwritten(session, Credentials(p))
       ELSE UNCHANGED session
    /\ Exit(p, "ok")
    /\ UNCHANGED <<hosts, accounts, accepted, commands, faults>>

(* config.ClearSession unlinks the file: a process that has it open writes *)
(* to a file without a name.                                               *)
cmdLogout(p) ==
    /\ At(p, "command") /\ proc[p].cmd.op = "logout"
    /\ session' = Missing
    /\ proc' = [q \in Terminals |->
           IF q = p THEN [proc[q] EXCEPT !.at = "idle", !.out = "ok"]
           ELSE [proc[q] EXCEPT !.linked = FALSE]]
    /\ UNCHANGED <<hosts, accounts, accepted, commands, faults>>

(* The file and sharing commands.  Without a GetUser in this process there *)
(* are no services, and the call dereferences nil.                         *)
cmdFile(p) ==
    LET c == proc[p].cmd
    IN  /\ At(p, "command") /\ legacyAlias(c.op) \in FileCommands
        /\ IF proc[p].user = None THEN Exit(p, "panic")
           ELSE \E out \in {"ok", "error"} : (c.op = "list" => out = "ok") /\ Exit(p, out)
        /\ UNCHANGED <<hosts, session, accounts, accepted, commands, faults>>

(* The command help, after the configuration was loaded. *)
cmdHelp(p) ==
    /\ At(p, "command") /\ proc[p].cmd.op = "help"
    /\ Exit(p, "ok")
    /\ UNCHANGED <<hosts, session, accounts, accepted, commands, faults>>

(* app.ReadFileTLS, netstream: no file and no account is involved. *)
cmdRead(p) ==
    /\ At(p, "command") /\ proc[p].cmd.op = "read"
    /\ \E out \in {"ok", "error"} : Exit(p, out)
    /\ UNCHANGED <<hosts, session, accounts, accepted, commands, faults>>

-----------------------------------------------------------------------------
(* The process is killed. *)
Die(p) ==
    /\ ~At(p, "idle") /\ faults < MaxFaults
    /\ faults' = faults + 1
    /\ Exit(p, "died")
    /\ UNCHANGED <<hosts, session, accounts, accepted, commands>>

(* os.MkdirAll, the open or the write fails: host reports it, init and     *)
(* login do not look.                                                      *)
FileFails(p) ==
    /\ faults < MaxFaults
    /\ faults' = faults + 1
    /\ \/ (At(p, "open hosts") \/ At(p, "write hosts")) /\ Exit(p, "error")
       \/ (At(p, "open session") \/ At(p, "write session")) /\ Exit(p, "ok")
    /\ UNCHANGED <<hosts, session, accounts, accepted, commands>>

Idle == [at |-> "idle", out |-> None, cmd |-> [op |-> "help", env |-> Default], cfg |-> NoHosts,
         save |-> NoHosts, host |-> Blank, user |-> None, linked |-> TRUE]

CliInit ==
    /\ hosts = Missing /\ session = Missing
    /\ accounts = [e \in Serving |-> [u \in Users |-> None]]
    /\ proc = [p \in Terminals |-> Idle]
    /\ accepted = {} /\ commands = 0 /\ faults = 0

ProcessStep(p) ==
    \/ LoadHosts(p) \/ OpenHosts(p) \/ WriteHosts(p)
    \/ LoadConfig(p) \/ LoadSession(p) \/ SessionUser(p)
    \/ BadFlags(p) \/ cmdHelp(p) \/ cmdInit(p) \/ cmdLogin(p) \/ cmdLogout(p)
    \/ cmdFile(p) \/ cmdRead(p)
    \/ OpenSession(p) \/ WriteSession(p)

CliNext ==
    \E p \in Terminals :
        \/ \E c \in Offered[p] : Run(p, c)
        \/ ProcessStep(p)
        \/ Die(p) \/ FileFails(p)

CliSpec == CliInit /\ [][CliNext]_cliVars

-----------------------------------------------------------------------------
AllIdle == \A p \in Terminals : At(p, "idle")

(* No command has been run at this terminal yet. *)
Unused(p) == At(p, "idle") /\ proc[p].out = None

(* Nothing has failed and no other terminal has run a command. *)
Alone(p) == faults = 0 /\ \A q \in Terminals \ {p} : Unused(q)

(* The table a user of one terminal works on: while Config.Save is between *)
(* its open and its write, the table that was loaded.                      *)
SeenTable ==
    IF hosts = Missing THEN NoHosts
    ELSE IF \E p \in Terminals : At(p, "write hosts")
         THEN proc[CHOOSE p \in Terminals : At(p, "write hosts")].cfg
    ELSE hosts

Hosts == INSTANCE HostTable WITH table <- SeenTable

HostCommandDone(p) ==
    /\ ~At(p, "idle") /\ proc[p].cmd.op \in {"add", "rm", "use"}
    /\ proc'[p].at = "idle" /\ proc'[p].out = "ok"

UsesDefault(c) == c.op = "use" /\ c.name = Default

HostStep ==
    \A p \in Terminals : Alone(p)' =>
        \/ HostCommandDone(p) /\ Hosts!TableNext /\ Hosts!Do(proc[p].cmd)
        \/ HostCommandDone(p) /\ UsesDefault(proc[p].cmd)
        \/ ~HostCommandDone(p) /\ UNCHANGED SeenTable

(* Entered one after the other at one terminal and not interrupted, the    *)
(* host commands' load, change and save of the file add up to add, rm and  *)
(* use of one table: a command that says ok has done exactly what it was   *)
(* asked, and no other command, and none that fails, touches the table.    *)
(* What `use default` does is left open here (UseSetsDefault).             *)
ImplementsHostTable ==
    Hosts!TableInit /\ [][HostStep]_cliVars

(* "use <name>  Set a host as default": after a use that says ok, the      *)
(* default host is the one that had the name when the file was loaded.     *)
UseSetsDefault ==
    \A p \in Terminals :
        Alone(p) /\ At(p, "idle") /\ proc[p].out = "ok" /\ proc[p].cmd.op = "use" =>
            Get(hosts, Default) = proc[p].cfg[proc[p].cmd.name]

(* Whatever logins, logouts and deaths come between each other, the        *)
(* session that the next file command will log in with holds credentials   *)
(* that a login or an init has got accepted: never half of two sessions,   *)
(* and never a password that was only tried.                               *)
SessionsAccepted ==
    session \notin Unreadable \cup {Missing} => session \in accepted

(* After a login or an init that says ok, the session is that user's until *)
(* the next command, unless a file failed: SaveSession's error is dropped. *)
LoginSticks ==
    \A p \in Terminals :
        /\ Alone(p) /\ At(p, "idle")
        /\ proc[p].out = "ok" /\ legacyAlias(proc[p].cmd.op) \in {"init", "login"}
        => session = Credentials(p)

(* An old command name does what its new one does: it never panics where   *)
(* the servers answer.                                                     *)
LegacyCommandsWork ==
    \A p \in Terminals : proc[p].out = "panic" => legacyAlias(proc[p].cmd.op) = proc[p].cmd.op
=============================================================================
