----------------------------- MODULE ConfigStore ----------------------------
(***************************************************************************)
(* The hub's settings: the one ServerConfig object in memory, the file     *)
(* michka.conf, the request handlers that change the object and save it,   *)
(* the restart that a port change asks for, crashes and the boot.          *)
(*                                                                         *)
(* No lock guards the object or the file.  A handler assigns one setting   *)
(* at a time; Save serializes the whole object and calls                   *)
(* File.WriteAllText, which opens the file, truncates it and writes the    *)
(* text: two savers may be between any of these steps at once.             *)
(*                                                                         *)
(* A setting is a number, 0 being its default ("", absent, "off", or port  *)
(* 5000).                                                                  *)
(***************************************************************************)
EXTENDS Integers

CONSTANTS
    Handlers,     \* concurrent requests
    Main,         \* the thread that boots the hub
    Bodies,       \* request bodies of POST /api/server-config
    SaveMayFail,  \* BOOLEAN: may a save throw
    PortOption,   \* the port of --port, 0 if it is not given (as in the unit)
    Refused,      \* ports the hub is never given: privileged, or always in use
    MaxPosts,     \* bound of the number of requests
    MaxCrashes,   \* bound of the number of crashes
    MaxTaken      \* bound of how often another program has the port

Threads == Handlers \cup {Main}

(* "legacy" is the global service list, "services" the hub's own entry.    *)
Keys == {"port", "token", "pin", "services", "legacy", "layout"}
Config == [Keys -> Nat]
Defaults == [k \in Keys |-> 0]

(* A value that the handler refuses: a port or a PIN of the wrong form.    *)
Invalid == -1

(* A body: values for some of the settings.                                *)
Unset == -2
Patch == [Keys -> Nat \cup {Invalid, Unset}]
NoPatch == [k \in Keys |-> Unset]

(* A file that does not parse: truncated, or a text over a longer one.     *)
Unreadable == [k \in {} |-> 0]
Absent == [k \in {"absent"} |-> 0]

ASSUME ConfigAssumption ==
    /\ Main \notin Handlers
    /\ Bodies \subseteq Patch
    /\ SaveMayFail \in BOOLEAN
    /\ PortOption \in Nat /\ Refused \subseteq Nat
    /\ MaxPosts \in Nat /\ MaxCrashes \in Nat /\ MaxTaken \in Nat

VARIABLES
    mem,       \* rt.Config
    rtPort,    \* rt.Port: the port the hub listens on
    file,      \* michka.conf
    minted,    \* tokens generated so far
    pc,        \* where each thread is
    todo,      \* the part of a body that is not applied yet
    changed,   \* the handler's local of that name
    restart,   \* the handler's local of that name
    text,      \* what a thread that saves has serialized
    exitDue,   \* ScheduleConfigRestart's task is waiting
    posts, crashes, taken,
    \* history: two saves overlapped; a request ended without saving what it
    \* changed; nothing was left to save when the hub last went down
    raced, unsaved, savedDown

localVars == <<todo, changed, restart>>
countVars == <<posts, crashes, taken>>
vars == <<mem, rtPort, file, minted, pc, localVars, text, exitDue, countVars,
          raced, unsaved, savedDown>>

Steps == {"down", "idle", "apply", "save", "open", "write", "reply", "migrate", "serving"}

At(t, step) == pc[t] = step
Goto(t, step) == pc' = [pc EXCEPT ![t] = step]
Writing(t) == pc[t] \in {"open", "write"}
AllIdle == \A h \in Handlers : At(h, "idle")
Quiet == AllIdle /\ At(Main, "serving")

(* What a thread has changed and will save.                                *)
Pending(t) == At(t, "save") \/ (t \in Handlers /\ At(t, "apply") /\ changed[t])

-----------------------------------------------------------------------------
Init ==
    /\ mem = Defaults /\ rtPort = 0 /\ file = Absent /\ minted = 0
    /\ pc = [t \in Threads |-> IF t = Main THEN "down" ELSE "idle"]
    /\ todo = [h \in Handlers |-> NoPatch]
    /\ changed = [h \in Handlers |-> FALSE]
    /\ restart = [h \in Handlers |-> FALSE]
    /\ text = [t \in Threads |-> Defaults]
    /\ exitDue = FALSE /\ posts = 0 /\ crashes = 0 /\ taken = 0
    /\ raced = FALSE /\ unsaved = FALSE /\ savedDown = FALSE

-----------------------------------------------------------------------------
(* A handler that returns leaves nothing behind.                           *)
Return(h) ==
    /\ Goto(h, "idle")
    /\ todo' = [todo EXCEPT ![h] = NoPatch]
    /\ changed' = [changed EXCEPT ![h] = FALSE]
    /\ restart' = [restart EXCEPT ![h] = FALSE]

(* POST /api/server-config: each setting in the body is checked and        *)
(* assigned in turn, in the order of the code.                             *)

Rank(k) == CASE k = "port" -> 1 [] k = "token" -> 2 [] k = "pin" -> 3
             [] k = "services" -> 4 [] k = "legacy" -> 5 [] k = "layout" -> 6
IsNext(h, k) ==
    /\ todo[h][k] # Unset
    /\ \A j \in Keys : todo[h][j] # Unset => Rank(k) <= Rank(j)
Applied(h, k) == todo' = [todo EXCEPT ![h][k] = Unset]

Post(h) ==
    /\ At(Main, "serving") /\ posts < MaxPosts
    /\ At(h, "idle") /\ Goto(h, "apply")
    /\ \E b \in Bodies : todo' = [todo EXCEPT ![h] = b]
    /\ posts' = posts + 1
    /\ UNCHANGED <<mem, rtPort, file, minted, changed, restart, text, exitDue, crashes, taken, raced, unsaved, savedDown>>

Assign(h, k, v) ==
    /\ mem' = [mem EXCEPT ![k] = v]
    /\ changed' = [changed EXCEPT ![h] = TRUE]
    /\ Applied(h, k)
    /\ UNCHANGED <<rtPort, file, pc, text, exitDue, countVars, raced, unsaved, savedDown>>

PortBecomes(h) ==
    /\ At(h, "apply") /\ IsNext(h, "port")
    /\ Assign(h, "port", todo[h]["port"])
    /\ restart' = [restart EXCEPT ![h] = TRUE]
    /\ UNCHANGED minted

(* Mutant of ChangePort: the range of the port is not checked.             *)
ChangePortUnchecked(h) == todo[h]["port"] # rtPort /\ PortBecomes(h)

ChangePort(h) == todo[h]["port"] \notin {Invalid, rtPort} /\ PortBecomes(h)

(* The port is compared with the one the hub runs on, not with the one it  *)
(* is set to.                                                              *)
KeepPort(h) ==
    /\ At(h, "apply") /\ IsNext(h, "port")
    /\ todo[h]["port"] = rtPort
    /\ Applied(h, "port")
    /\ UNCHANGED <<mem, rtPort, file, minted, pc, changed, restart, text, exitDue, countVars,
                   raced, unsaved, savedDown>>

RegenToken(h) ==
    /\ At(h, "apply") /\ IsNext(h, "token")
    /\ minted' = minted + 1
    /\ Assign(h, "token", minted')
    /\ UNCHANGED restart

ChangeSetting(h) ==
    /\ At(h, "apply")
    /\ \E k \in Keys \ {"port", "token"} :
           IsNext(h, k) /\ todo[h][k] # Invalid /\ Assign(h, k, todo[h][k])
    /\ UNCHANGED <<restart, minted>>

(* 400: what the body changed before the refused value stays changed.      *)
Reject(h) ==
    /\ At(h, "apply") /\ Return(h)
    /\ \E k \in {"port", "pin"} : IsNext(h, k) /\ todo[h][k] = Invalid
    /\ unsaved' = (unsaved \/ changed[h])
    /\ UNCHANGED <<mem, rtPort, file, minted, text, exitDue, countVars, raced, savedDown>>

EndApply(h, saves) ==
    /\ At(h, "apply") /\ todo[h] = NoPatch
    /\ Goto(h, IF saves THEN "save" ELSE "reply")
    /\ UNCHANGED <<mem, rtPort, file, minted, localVars, text, exitDue, countVars,
                   raced, unsaved, savedDown>>

(* Mutant of AllApplied: only a change that needs a restart is saved.      *)
AllAppliedPort(h) == EndApply(h, restart[h])

AllApplied(h) == EndApply(h, changed[h])

(* POST /api/hosts/delete removes the host's layout, if it has one.        *)
DeleteLayout(h) ==
    /\ At(Main, "serving") /\ posts < MaxPosts
    /\ At(h, "idle") /\ Goto(h, "save")
    /\ mem["layout"] # 0
    /\ mem' = [mem EXCEPT !["layout"] = 0]
    /\ posts' = posts + 1
    /\ UNCHANGED <<rtPort, file, minted, localVars, text, exitDue, crashes, taken,
                   raced, unsaved, savedDown>>

-----------------------------------------------------------------------------
(* Save, by a handler or by the boot.                                      *)

Serialize(t) ==
    /\ At(t, "save") /\ Goto(t, "open")
    /\ text' = [text EXCEPT ![t] = mem]
    /\ raced' = (raced \/ \E u \in Threads \ {t} : Writing(u))
    /\ unsaved' = FALSE
    /\ UNCHANGED <<mem, rtPort, file, minted, localVars, exitDue, countVars, savedDown>>

(* The file is opened and truncated.                                       *)
Truncate(t) ==
    /\ At(t, "open") /\ Goto(t, "write")
    /\ file' = Unreadable
    /\ UNCHANGED <<mem, rtPort, minted, localVars, text, exitDue, countVars,
                   raced, unsaved, savedDown>>

AfterSave(t) == IF t = Main THEN "migrate" ELSE "reply"

(* The text is written from the start of the file.  If another saver has   *)
(* written since the truncation, the end of a longer text remains.         *)
WriteText(t) ==
    /\ At(t, "write") /\ Goto(t, AfterSave(t))
    /\ \/ file' = text[t]
       \/ file \notin {Unreadable, text[t]} /\ file' = Unreadable
    /\ text' = [text EXCEPT ![t] = Defaults]
    /\ UNCHANGED <<mem, rtPort, minted, localVars, exitDue, countVars,
                   raced, unsaved, savedDown>>

(* The save throws: before the file is touched, or for want of space.  A   *)
(* handler answers 500 (the removal of a host ignores it), the boot goes   *)
(* on.  Either way no restart is scheduled.                                *)
FailSave(t) ==
    /\ SaveMayFail /\ Writing(t)
    /\ IF t = Main THEN Goto(Main, "migrate") /\ UNCHANGED localVars ELSE Return(t)
    /\ text' = [text EXCEPT ![t] = Defaults]
    /\ unsaved' = TRUE
    /\ UNCHANGED <<mem, rtPort, file, minted, exitDue, countVars, raced, savedDown>>

Answer(h, exits) ==
    /\ At(h, "reply") /\ Return(h)
    /\ exitDue' = (exitDue \/ exits)
    /\ UNCHANGED <<mem, rtPort, file, minted, text, countVars, raced, unsaved, savedDown>>

(* Mutant of Reply: the answer says that the hub restarts; it does not.    *)
AnswerOnly(h) == Answer(h, FALSE)

Reply(h) == Answer(h, restart[h])

-----------------------------------------------------------------------------
(* The process ends by the scheduled exit, a bare Environment.Exit that    *)
(* waits for no handler, or in a crash (a power cut, say) at any step, and *)
(* systemd starts it again.  What was in memory is kept here to compare it *)
(* with what the hub comes back with.                                      *)

GoDown ==
    /\ pc' = [t \in Threads |-> IF t = Main THEN "down" ELSE "idle"]
    /\ todo' = [h \in Handlers |-> NoPatch]
    /\ changed' = [h \in Handlers |-> FALSE] /\ restart' = [h \in Handlers |-> FALSE]
    /\ text' = [t \in Threads |-> Defaults]
    /\ exitDue' = FALSE /\ rtPort' = 0
    /\ savedDown' = (\A t \in Threads : ~Pending(t) /\ ~Writing(t))
    /\ UNCHANGED <<mem, file, minted, posts, raced, unsaved>>

Exit ==
    /\ exitDue /\ At(Main, "serving")
    /\ GoDown
    /\ UNCHANGED <<crashes, taken>>

Crash ==
    /\ ~At(Main, "down") /\ crashes < MaxCrashes
    /\ crashes' = crashes + 1
    /\ GoDown
    /\ UNCHANGED taken

Restored == IF file \in {Unreadable, Absent} THEN Defaults ELSE file

LoadWith(mint) ==
    /\ At(Main, "down") /\ Goto(Main, IF file = Absent \/ mint THEN "save" ELSE "migrate")
    /\ mem' = IF mint THEN [Restored EXCEPT !["token"] = minted + 1] ELSE Restored
    /\ minted' = IF mint THEN minted + 1 ELSE minted
    /\ raced' = FALSE /\ unsaved' = FALSE /\ savedDown' = FALSE
    /\ UNCHANGED <<rtPort, file, localVars, text, exitDue, countVars>>

(* Mutant of Load: a token is generated at every start.                    *)
LoadNewToken == LoadWith(TRUE)

(* ServerConfig.Load: a file that cannot be read is as good as none; a     *)
(* config without a token gets one; and then it is saved.                  *)
Load == LoadWith(Restored["token"] = 0)

MustMigrate == mem["legacy"] # 0 /\ mem["services"] = 0

Migrate ==
    /\ At(Main, "migrate") /\ Goto(Main, "save")
    /\ MustMigrate
    /\ mem' = [mem EXCEPT !["services"] = mem["legacy"]]
    /\ UNCHANGED <<rtPort, file, minted, localVars, text, exitDue, countVars,
                   raced, unsaved, savedDown>>

(* The command line goes before the configuration.                         *)
PortOf(c) == IF PortOption # 0 THEN PortOption ELSE c["port"]

ServeIf(ready) ==
    /\ At(Main, "migrate") /\ Goto(Main, "serving")
    /\ ~MustMigrate /\ PortOf(mem) \notin Refused /\ ready
    /\ rtPort' = PortOf(mem)
    /\ UNCHANGED <<mem, file, minted, localVars, text, exitDue, countVars, raced, unsaved, savedDown>>

(* Mutant of Listen: a hub whose settings could not be saved stays down.   *)
ListenIfSaved == ServeIf(~unsaved)

Listen == ServeIf(TRUE)

(* The port is privileged, or another program has it, for the moment or    *)
(* always: RunAsync throws, and the process ends.                          *)
FailListen ==
    /\ At(Main, "migrate") /\ ~MustMigrate
    /\ \/ PortOf(mem) \in Refused /\ UNCHANGED taken
       \/ taken < MaxTaken /\ taken' = taken + 1
    /\ GoDown
    /\ UNCHANGED crashes

-----------------------------------------------------------------------------
Save(t) == Serialize(t) \/ Truncate(t) \/ WriteText(t) \/ FailSave(t)

Handle(h) ==
    \/ ChangePort(h) \/ KeepPort(h) \/ RegenToken(h) \/ ChangeSetting(h) \/ Reject(h)
    \/ AllApplied(h) \/ Save(h) \/ Reply(h)

Boot == Load \/ Migrate \/ Save(Main) \/ Listen \/ FailListen

Next ==
    \/ \E h \in Handlers : Post(h) \/ DeleteLayout(h) \/ Handle(h)
    \/ Boot \/ Exit \/ Crash

Spec == Init /\ [][Next]_vars

(* A request that was accepted is run to its end, the scheduled exit comes *)
(* 600 ms later, and the unit's Restart=always starts the hub again, so    *)
(* often that it finds a port free that is free at times.  Nothing makes a *)
(* user post or the machine crash.                                         *)
Fairness ==
    /\ \A h \in Handlers : WF_vars(Handle(h))
    /\ WF_vars(Boot) /\ SF_vars(Listen) /\ WF_vars(Exit)

FairSpec == Spec /\ Fairness

-----------------------------------------------------------------------------
(* Properties.                                                             *)

(* Every variable has its type.                                            *)
TypeOK ==
    /\ mem \in Config /\ rtPort \in Nat /\ minted \in Nat
    /\ file \in Config \cup {Unreadable, Absent}
    /\ pc \in [Threads -> Steps]
    /\ todo \in [Handlers -> Patch]
    /\ changed \in [Handlers -> BOOLEAN] /\ restart \in [Handlers -> BOOLEAN]
    /\ text \in [Threads -> Config]
    /\ exitDue \in BOOLEAN /\ posts \in Nat /\ crashes \in Nat /\ taken \in Nat
    /\ raced \in BOOLEAN /\ unsaved \in BOOLEAN /\ savedDown \in BOOLEAN

(* When no request is under way, michka.conf holds the settings the hub    *)
(* uses, whatever requests, failed saves, restarts and crashes came before *)
(* in whatever order: unless two saves overlapped in this run of the hub   *)
(* or the last one failed.                                                 *)
QuietFileCurrent == Quiet => file = mem \/ raced \/ unsaved

(* A hub that goes down with nothing changed that is not saved comes back  *)
(* with the very settings it had, the agents' token among them: after a    *)
(* scheduled exit that waits for no handler, a crash at any step, or a     *)
(* port that it was not given.                                             *)
RestartKeepsSettings ==
    [][Load /\ savedDown => mem' = mem \/ raced \/ unsaved]_vars

(* What the handler says of itself: settings are persisted to michka.conf. *)
SettingsPersisted == Quiet => file = mem \/ unsaved

(* A port change that was answered with "restarting" is followed by the    *)
(* hub serving that port, unless the setting is changed again or lost, the *)
(* command line names a port, or the hub is not given this one.            *)
PortTakesEffect ==
    \A h \in Handlers, p \in {b["port"] : b \in Bodies} :
        At(h, "reply") /\ restart[h] /\ mem["port"] = p
            ~> \/ At(Main, "serving") /\ rtPort = p
               \/ mem["port"] # p \/ PortOption # 0 \/ p \in Refused

(* The hub comes back to serving unless it is to listen on a port that it  *)
(* is never given: after an exit in the middle of requests, a crash, with  *)
(* a port that is taken for a while, a file that cannot be read and one    *)
(* that cannot be written.                                                 *)
ServesAgain ==
    At(Main, "down") /\ PortOf(Restored) \notin Refused ~> At(Main, "serving")

=============================================================================
