----------------------------- MODULE CliSession -----------------------------
(***************************************************************************)
(* The command line client and its session file.  Processes (`login`, a    *)
(* command, the stdio MCP server, `logout`) share one file and no lock:    *)
(* a login waits on a loopback server for the browser, exchanges the code  *)
(* and saves the session; the admin client adopts a session the back end   *)
(* answers in exchange for the one it sent, and saves it; a logout ends    *)
(* the session it loaded and removes the file.                             *)
(*                                                                         *)
(* A session is its number, 0 is none.  A code is named by the login that  *)
(* asked for it: its state and its verifier.                               *)
(***************************************************************************)
EXTENDS Naturals, FiniteSets

CONSTANTS
    Process,     \* processes of the command line client
    Slot,        \* calls an MCP server may run at once
    FirstSlot,   \* the one that a plain command uses
    MaxCookies,  \* bound on sessions the back end makes
    MaxKills     \* bound on processes that are killed

ASSUME CliSessionAssumption == FirstSlot \in Slot /\ MaxCookies \in Nat \ {0} /\ MaxKills \in Nat

VARIABLES
    file,        \* session.json: a session, 0, or half of one
    temp,        \* each process's temporary file
    alive,       \* sessions the back end accepts
    made,        \* how many it made
    redirects,   \* browsers on their way to the loopback port with a code
    cli,         \* the processes
    kills,
    overlapped   \* history: a process ran two saves at once

cliVars == <<file, temp, alive, made, redirects, cli, kills, overlapped>>

Partial == MaxCookies + 1
Unsent == [at |-> "idle", sent |-> 0, got |-> 0]
NotStarted == [kind |-> "none", at |-> "new", asked |-> FALSE, closure |-> 0, memory |-> 0,
               call |-> [s \in Slot |-> Unsent]]

CliInit ==
    /\ file = 1 /\ alive = {1} /\ made = 1
    /\ temp = [p \in Process |-> 0]
    /\ redirects = {} /\ kills = 0 /\ overlapped = FALSE
    /\ cli = [p \in Process |-> NotStarted]

CliAt(p, kind, at) == cli[p].kind = kind /\ cli[p].at = at
Goes(p, changed) == cli' = [cli EXCEPT ![p] = changed]
Ends(p) == Goes(p, [NotStarted EXCEPT !.kind = cli[p].kind, !.at = "over"])

\* The back end makes a session.
Make == made < MaxCookies /\ made' = made + 1 /\ alive' = alive \cup {made + 1}

-----------------------------------------------------------------------------
(* login.  Every login of the model uses the same --port.                  *)

Listening(p) == cli[p].kind = "login" /\ cli[p].at \in {"browser", "wait", "hung"}

StartLogin(p) ==
    /\ cli[p].at = "new" /\ ~\E q \in Process : Listening(q)
    /\ Goes(p, [NotStarted EXCEPT !.kind = "login", !.at = "browser"])
    /\ UNCHANGED <<file, temp, alive, made, redirects, kills, overlapped>>

\* The back end sends the browser to the port with a code and the state.
Authorize(p) ==
    /\ Listening(p) /\ ~cli[p].asked
    /\ Goes(p, [cli[p] EXCEPT !.asked = TRUE])
    /\ redirects' = redirects \cup {p}
    /\ UNCHANGED <<file, temp, alive, made, kills, overlapped>>

\* openBrowser is awaited until the command that opens the browser is over;
\* only then does the login wait for a code.
BrowserOpened(p) ==
    /\ CliAt(p, "login", "browser")
    /\ Goes(p, [cli[p] EXCEPT !.at = "wait"])
    /\ UNCHANGED <<file, temp, alive, made, redirects, kills, overlapped>>

\* The callback settles who waits: with the code, or with an error for the
\* state of another login.  Before anyone waits it settles nobody.
Settled(p, c) ==
    IF cli[p].at # "wait" THEN cli[p].at
    ELSE IF c = p THEN "exchange" ELSE "hung"

Callback(p, c) ==
    /\ Listening(p) /\ c \in redirects
    /\ redirects' = redirects \ {c}
    /\ Goes(p, [cli[p] EXCEPT !.at = Settled(p, c)])
    /\ UNCHANGED <<file, temp, alive, made, kills, overlapped>>

\* A login that fails leaves its loopback server open, and the process with it.
CallbackTimeout(p) ==
    /\ CliAt(p, "login", "wait")
    /\ Goes(p, [cli[p] EXCEPT !.at = "hung"])
    /\ UNCHANGED <<file, temp, alive, made, redirects, kills, overlapped>>

ExchangeCode(p) ==
    /\ CliAt(p, "login", "exchange")
    /\ \/ /\ Make
          /\ Goes(p, [cli[p] EXCEPT !.at = "saving", !.call[FirstSlot] = [at |-> "write", sent |-> 0, got |-> made + 1]])
       \/ Ends(p) /\ UNCHANGED <<alive, made>>
    /\ UNCHANGED <<file, temp, redirects, kills, overlapped>>

-----------------------------------------------------------------------------
(* Commands and the MCP server                                             *)

StartClient(p, kind) ==
    /\ cli[p].at = "new"
    /\ Goes(p, [NotStarted EXCEPT !.kind = kind, !.at = "load"])
    /\ UNCHANGED <<file, temp, alive, made, redirects, kills, overlapped>>

\* TokenStore.load: a file that cannot be parsed is no session.
FromFile == IF file = Partial THEN 0 ELSE file

\* A command ends when it is not logged in; an MCP server answers an error and
\* loads again at the next call.
Load(p) ==
    /\ cli[p].kind \in {"command", "mcp"} /\ cli[p].at = "load"
    /\ \/ FromFile # 0 /\ Goes(p, [cli[p] EXCEPT !.at = "ready", !.closure = FromFile])
       \/ FromFile = 0 /\ cli[p].kind = "command" /\ Ends(p)
    /\ UNCHANGED <<file, temp, alive, made, redirects, kills, overlapped>>

SlotsOf(p) == IF cli[p].kind = "mcp" THEN Slot ELSE {FirstSlot}
InCall(p, s, at) == cli[p].at = "ready" /\ cli[p].call[s].at = at
WithCall(p, s, call) == [cli[p] EXCEPT !.call[s] = call]

\* sessionProvider: the session of the client, or the one getSession closes over
Cookie(p) == IF cli[p].memory = 0 THEN cli[p].closure ELSE cli[p].memory

SendCall(p, s) ==
    /\ s \in SlotsOf(p) /\ InCall(p, s, "idle")
    /\ Goes(p, [WithCall(p, s, [Unsent EXCEPT !.at = "sent", !.sent = Cookie(p)]) EXCEPT !.memory = Cookie(p)])
    /\ UNCHANGED <<file, temp, alive, made, redirects, kills, overlapped>>

\* A call that keeps the session.
CallAnswered(p, s) ==
    /\ InCall(p, s, "sent") /\ cli[p].call[s].sent \in alive
    /\ Goes(p, WithCall(p, s, Unsent))
    /\ UNCHANGED <<file, temp, alive, made, redirects, kills, overlapped>>

Denied(p, s) ==
    /\ InCall(p, s, "sent") /\ cli[p].call[s].sent \notin alive
    /\ Goes(p, [WithCall(p, s, Unsent) EXCEPT !.memory = 0])
    /\ UNCHANGED <<file, temp, alive, made, redirects, kills, overlapped>>

\* An accepted invitation: a new session, then the old one is deleted.
Replace(p, s) ==
    /\ InCall(p, s, "sent") /\ cli[p].call[s].sent \in alive
    /\ Make
    /\ Goes(p, WithCall(p, s, [cli[p].call[s] EXCEPT !.at = "replaced", !.got = made + 1]))
    /\ UNCHANGED <<file, temp, redirects, kills, overlapped>>

DeleteReplaced(p, s) ==
    /\ InCall(p, s, "replaced")
    /\ alive' = alive \ {cli[p].call[s].sent}
    /\ Goes(p, WithCall(p, s, [cli[p].call[s] EXCEPT !.at = "answered"]))
    /\ UNCHANGED <<file, temp, made, redirects, kills, overlapped>>

\* Mutant: the old session is spread over the new one.
MergedOld(p, s) == cli[p].closure

\* onSessionChanged: the session the closure and the file go on with
Merged(p, s) == cli[p].call[s].got

AdoptCookie(p, s) ==
    /\ InCall(p, s, "answered")
    /\ Goes(p, [WithCall(p, s, [cli[p].call[s] EXCEPT !.at = "write", !.got = Merged(p, s)])
                   EXCEPT !.closure = Merged(p, s)])
    /\ overlapped' = (overlapped \/ \E t \in Slot \ {s} : cli[p].call[t].at \in {"write", "written", "rename"})
    /\ UNCHANGED <<file, temp, alive, made, redirects, kills>>

Saving(p) == cli[p].at \in {"ready", "saving"}

\* TokenStore.save: one temporary file for the whole process
OpenTemp(p, s) ==
    /\ Saving(p) /\ cli[p].call[s].at = "write"
    /\ temp' = [temp EXCEPT ![p] = Partial]
    /\ Goes(p, WithCall(p, s, [cli[p].call[s] EXCEPT !.at = "written"]))
    /\ UNCHANGED <<file, alive, made, redirects, kills, overlapped>>

WriteTemp(p, s) ==
    /\ Saving(p) /\ cli[p].call[s].at = "written"
    /\ temp' = [temp EXCEPT ![p] = cli[p].call[s].got]
    /\ Goes(p, WithCall(p, s, [cli[p].call[s] EXCEPT !.at = "rename"]))
    /\ UNCHANGED <<file, alive, made, redirects, kills, overlapped>>

\* The client uses the new session once it is saved; a login is over.  When
\* the temporary file is gone the call fails and the client keeps its session.
RenameTemp(p, s) ==
    /\ Saving(p) /\ cli[p].call[s].at = "rename"
    /\ file' = IF temp[p] = 0 THEN file ELSE temp[p]
    /\ temp' = [temp EXCEPT ![p] = 0]
    /\ \/ cli[p].kind = "login" /\ Ends(p)
       \/ /\ cli[p].kind # "login"
          /\ Goes(p, [WithCall(p, s, Unsent) EXCEPT
                        !.memory = IF temp[p] = 0 THEN @ ELSE cli[p].call[s].got])
    /\ UNCHANGED <<alive, made, redirects, kills, overlapped>>

Finish(p) ==
    /\ CliAt(p, "command", "ready") /\ InCall(p, FirstSlot, "idle")
    /\ Ends(p)
    /\ UNCHANGED <<file, temp, alive, made, redirects, kills, overlapped>>

-----------------------------------------------------------------------------
(* logout                                                                  *)

StartLogout(p) ==
    /\ cli[p].at = "new" /\ FromFile # 0
    /\ Goes(p, [NotStarted EXCEPT !.kind = "logout", !.at = "revoke", !.closure = FromFile])
    /\ UNCHANGED <<file, temp, alive, made, redirects, kills, overlapped>>

\* The request may fail; the file is removed in either case.
Revoke(p) ==
    /\ CliAt(p, "logout", "revoke")
    /\ alive' \in {alive, alive \ {cli[p].closure}}
    /\ Goes(p, [cli[p] EXCEPT !.at = "clear"])
    /\ UNCHANGED <<file, temp, made, redirects, kills, overlapped>>

Clear(p) ==
    /\ CliAt(p, "logout", "clear")
    /\ file' = 0
    /\ Ends(p)
    /\ UNCHANGED <<temp, alive, made, redirects, kills, overlapped>>

Kill(p) ==
    /\ kills < MaxKills /\ cli[p].at \notin {"new", "over"}
    /\ kills' = kills + 1
    /\ Ends(p)
    /\ temp' = [temp EXCEPT ![p] = 0]
    /\ UNCHANGED <<file, alive, made, redirects, overlapped>>

-----------------------------------------------------------------------------

CliStep(p) ==
    \/ StartLogin(p) \/ Authorize(p) \/ BrowserOpened(p)
    \/ \E c \in redirects : Callback(p, c)
    \/ CallbackTimeout(p) \/ ExchangeCode(p)
    \/ \E k \in {"command", "mcp"} : StartClient(p, k)
    \/ Load(p) \/ Finish(p)
    \/ \E s \in Slot :
          \/ SendCall(p, s) \/ CallAnswered(p, s) \/ Denied(p, s) \/ Replace(p, s) \/ DeleteReplaced(p, s)
          \/ AdoptCookie(p, s) \/ OpenTemp(p, s) \/ WriteTemp(p, s) \/ RenameTemp(p, s)
    \/ StartLogout(p) \/ Revoke(p) \/ Clear(p) \/ Kill(p)

CliNext == \E p \in Process : CliStep(p)

\* No process is in the middle of anything.
AtRest ==
    \A p \in Process :
        \/ cli[p].at \in {"new", "over"}
        \/ cli[p].at \in {"load", "ready"} /\ \A s \in Slot : cli[p].call[s] = Unsent

\* Whatever the processes did at once, the session that is left in the file
\* works: an older process never puts back a session that was replaced.  Two
\* saves at once in one process and a killed process are the exceptions.
SavedSessionWorks == AtRest /\ ~overlapped /\ kills = 0 => file \in alive \cup {0}

=============================================================================
