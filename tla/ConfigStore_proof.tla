------------------------- MODULE ConfigStore_proof --------------------------
(***************************************************************************)
(* Theorems about ConfigStore, for any number of concurrent requests, any  *)
(* request bodies and any number of requests and crashes.                  *)
(***************************************************************************)
EXTENDS ConfigStore, TLAPS

(* The two contents of the file that are not a configuration.              *)
LEMMA NotConfig == Unreadable \notin Config /\ Absent \notin Config
<1>1. "port" \notin DOMAIN Unreadable /\ "port" \notin DOMAIN Absent
  BY DEF Unreadable, Absent
<1>2. \A c \in Config : "port" \in DOMAIN c
  BY DEF Config, Keys
<1> QED BY <1>1, <1>2

-----------------------------------------------------------------------------
(* Type correctness.                                                       *)

LEMMA DefaultsType == Defaults \in Config
BY DEF Defaults, Config

LEMMA NoPatchType == NoPatch \in Patch
BY DEF NoPatch, Patch

LEMMA ConfigTypeInit == Init => TypeOK
<1> SUFFICES ASSUME Init PROVE TypeOK
  OBVIOUS
<1> QED BY DefaultsType, NoPatchType, ConfigAssumption DEF Init, TypeOK, Steps, Threads

(* A step that assigns a setting.                                          *)
LEMMA TypeAssign ==
    ASSUME TypeOK, NEW h \in Handlers, NEW k, NEW v \in Nat, k \in Keys, Assign(h, k, v),
           restart' \in [Handlers -> BOOLEAN], minted' \in Nat
    PROVE  TypeOK'
<1>1. mem' \in Config
  BY DEF Assign, TypeOK, Config
<1>2. todo' \in [Handlers -> Patch]
  BY DEF Assign, Applied, TypeOK, Patch
<1> QED BY <1>1, <1>2 DEF Assign, TypeOK, countVars

LEMMA TypeHandle ==
    ASSUME TypeOK, NEW h \in Handlers, Post(h) \/ DeleteLayout(h) \/ Handle(h), ~Save(h)
    PROVE  TypeOK'
<1> USE DEF At, Goto, Threads, Steps, localVars, countVars
<1>1. CASE Post(h)
  BY <1>1, ConfigAssumption DEF Post, TypeOK
<1>2. CASE DeleteLayout(h)
  <2>1. mem' \in Config
    BY <1>2 DEF DeleteLayout, TypeOK, Config, Keys
  <2> QED BY <1>2, <2>1 DEF DeleteLayout, TypeOK
<1>3. CASE ChangePort(h)
  <2>1. todo[h]["port"] \in Nat
    BY <1>3 DEF ChangePort, PortBecomes, IsNext, TypeOK, Patch, Keys
  <2> QED BY <1>3, <2>1, TypeAssign DEF ChangePort, PortBecomes, TypeOK, Keys
<1>4. CASE KeepPort(h)
  <2>1. todo' \in [Handlers -> Patch]
    BY <1>4 DEF KeepPort, Applied, TypeOK, Patch
  <2> QED BY <1>4, <2>1 DEF KeepPort, TypeOK
<1>5. CASE RegenToken(h)
  BY <1>5, TypeAssign DEF RegenToken, TypeOK, Keys
<1>6. CASE ChangeSetting(h)
  <2>1. PICK k \in Keys \ {"port", "token"} :
            IsNext(h, k) /\ todo[h][k] # Invalid /\ Assign(h, k, todo[h][k])
    BY <1>6 DEF ChangeSetting
  <2>2. todo[h][k] \in Nat
    BY <2>1 DEF IsNext, TypeOK, Patch
  <2> QED BY <1>6, <2>1, <2>2, TypeAssign DEF ChangeSetting, TypeOK
<1>7. CASE Reject(h)
  BY <1>7, NoPatchType DEF Reject, Return, TypeOK
<1>8. CASE AllApplied(h)
  BY <1>8 DEF AllApplied, EndApply, TypeOK
<1>9. CASE Reply(h)
  BY <1>9, NoPatchType DEF Reply, Answer, Return, TypeOK
<1> QED BY <1>1, <1>2, <1>3, <1>4, <1>5, <1>6, <1>7, <1>8, <1>9 DEF Handle

LEMMA TypeSave ==
    ASSUME TypeOK, NEW t \in Threads, Save(t)
    PROVE  TypeOK'
<1> USE DEF At, Goto, Steps, localVars, countVars
<1>1. CASE Serialize(t)
  BY <1>1 DEF Serialize, TypeOK
<1>2. CASE Truncate(t)
  BY <1>2 DEF Truncate, TypeOK
<1>3. CASE WriteText(t)
  BY <1>3, DefaultsType DEF WriteText, AfterSave, TypeOK
<1>4. CASE FailSave(t)
  <2>1. t # Main => t \in Handlers
    BY DEF Threads
  <2> QED BY <1>4, <2>1, DefaultsType, NoPatchType DEF FailSave, Return, TypeOK
<1> QED BY <1>1, <1>2, <1>3, <1>4 DEF Save

LEMMA RestoredType == ASSUME TypeOK PROVE Restored \in Config
BY DEF TypeOK, Restored, Defaults, Config

LEMMA TypeProcess ==
    ASSUME TypeOK, Load \/ Migrate \/ Listen \/ FailListen \/ Exit \/ Crash
    PROVE  TypeOK'
<1> USE DEF At, Goto, Threads, Steps, localVars, countVars
<1>1. CASE Load
  <2>1. mem' \in Config /\ minted' \in Nat
    BY <1>1, RestoredType DEF Load, LoadWith, TypeOK, Config, Keys
  <2> QED BY <1>1, <2>1 DEF Load, LoadWith, TypeOK
<1>2. CASE Migrate
  <2>1. mem' \in Config
    BY <1>2 DEF Migrate, TypeOK, Config, Keys
  <2> QED BY <1>2, <2>1 DEF Migrate, TypeOK
<1>3. CASE Listen
  BY <1>3, ConfigAssumption DEF Listen, ServeIf, PortOf, TypeOK, Config, Keys
<1>4. CASE Exit \/ Crash \/ FailListen
  <2>1. GoDown
    BY <1>4 DEF Exit, Crash, FailListen
  <2>2. savedDown' \in BOOLEAN
    BY <2>1 DEF GoDown
  <2>3. crashes' \in Nat /\ taken' \in Nat
    BY <1>4 DEF Exit, Crash, FailListen, TypeOK
  <2> QED BY <2>1, <2>2, <2>3, DefaultsType, NoPatchType DEF GoDown, TypeOK
<1> QED BY <1>1, <1>2, <1>3, <1>4

(* Whatever the request bodies, every variable keeps its type.             *)
THEOREM ConfigTypeCorrect == Spec => []TypeOK
<1>1. TypeOK /\ [Next]_vars => TypeOK'
  <2> SUFFICES ASSUME TypeOK, [Next]_vars PROVE TypeOK'
    OBVIOUS
  <2>1. CASE UNCHANGED vars
    BY <2>1 DEF vars, TypeOK, localVars, countVars
  <2>2. CASE \E t \in Threads : Save(t)
    BY <2>2, TypeSave
  <2>3. CASE Next /\ ~ \E t \in Threads : Save(t)
    BY <2>3, TypeHandle, TypeProcess DEF Next, Boot, Threads
  <2> QED BY <2>1, <2>2, <2>3
<1> QED BY <1>1, ConfigTypeInit, PTL DEF Spec

-----------------------------------------------------------------------------
(* The file follows the settings in memory.                                *)

(* A hub that is down handles no request.                                  *)
DownIdle == At(Main, "down") => AllIdle

(* Without a race one thread at a time is between Serialize and the end of *)
(* its write, and it writes to the file that it truncated.                 *)
OneWriter ==
    ~raced =>
        /\ \A t, u \in Threads : Writing(t) /\ Writing(u) => t = u
        /\ \A t \in Threads : At(t, "write") => file = Unreadable

(* Then, once nothing is left to save, the file holds the settings or is   *)
(* being written with them.                                                *)
FileFollows ==
    ~raced /\ ~unsaved /\ ~At(Main, "down") /\ (\A t \in Threads : ~Pending(t)) =>
        /\ \A t \in Threads : Writing(t) => text[t] = mem
        /\ (\A t \in Threads : ~Writing(t)) => file = mem

FileInv == DownIdle /\ OneWriter /\ FileFollows

LEMMA FileInit == Init => FileInv
BY ConfigAssumption DEF Init, FileInv, DownIdle, OneWriter, FileFollows, AllIdle, At, Writing, Threads

LEMMA FileHandle ==
    ASSUME TypeOK, FileInv, NEW h \in Handlers, Post(h) \/ DeleteLayout(h) \/ Handle(h), ~Save(h)
    PROVE  FileInv'
<1> USE ConfigAssumption DEF Threads
<1>1. /\ UNCHANGED <<file, text, raced>>
      /\ pc[Main] # "down" \/ pc[h] # "idle"
      /\ \A t \in Threads \ {h} : pc'[t] = pc[t]
      /\ ~Writing(h) /\ ~Writing(h)'
  BY DEF Post, DeleteLayout, Handle, ChangePort, PortBecomes, KeepPort, RegenToken, ChangeSetting, Assign, Reject,
     AllApplied, EndApply, Reply, Answer, Return, At, Goto, Writing, TypeOK
<1>2. DownIdle'
  BY <1>1 DEF FileInv, DownIdle, AllIdle, At
<1>3. OneWriter'
  BY <1>1 DEF FileInv, OneWriter, Writing, At
<1>4. \A u \in Handlers \ {h} : changed'[u] = changed[u]
  BY DEF Post, DeleteLayout, Handle, ChangePort, PortBecomes, KeepPort, RegenToken, ChangeSetting, Assign, Reject,
     AllApplied, EndApply, Reply, Answer, Return, TypeOK, localVars
<1>5. Pending(h)' \/ unsaved' \/ (~Pending(h) /\ UNCHANGED <<mem, unsaved>>)
  BY DEF Post, DeleteLayout, Handle, ChangePort, PortBecomes, KeepPort, RegenToken, ChangeSetting, Assign, Reject,
     AllApplied, EndApply, Reply, Answer, Return, TypeOK, Pending, At, Goto, localVars
<1>6. FileFollows'
  BY <1>1, <1>4, <1>5 DEF FileInv, FileFollows, Pending, Writing, At
<1> QED BY <1>2, <1>3, <1>6 DEF FileInv

LEMMA FileSave ==
    ASSUME TypeOK, FileInv, NEW t \in Threads, Save(t)
    PROVE  FileInv'
<1> USE ConfigAssumption DEF Threads
<1>0. mem' = mem
  BY DEF Save, Serialize, Truncate, WriteText, FailSave, localVars
<1>1. /\ pc[t] \in {"save", "open", "write"}
      /\ pc' = [pc EXCEPT ![t] = pc'[t]]
      /\ pc'[t] # "down" /\ pc'[t] \notin {"save", "apply"}
  BY DEF Save, Serialize, Truncate, WriteText, FailSave, Return, AfterSave, At, Goto, TypeOK, Writing, localVars
<1>2. DownIdle'
  BY <1>1 DEF FileInv, DownIdle, AllIdle, At, TypeOK
<1>3. CASE Serialize(t)
  BY <1>0, <1>1, <1>2, <1>3 DEF Serialize, localVars, FileInv, OneWriter, FileFollows, Pending, Writing, At, Goto, TypeOK
<1>4. CASE Truncate(t)
  BY <1>0, <1>1, <1>2, <1>4 DEF Truncate, localVars, FileInv, OneWriter, FileFollows, Pending, Writing, At, Goto, TypeOK
<1>5. CASE WriteText(t)
  BY <1>0, <1>1, <1>2, <1>5 DEF WriteText, AfterSave, localVars, FileInv, OneWriter, FileFollows, Pending, Writing, At,
     Goto, TypeOK
<1>6. CASE FailSave(t)
  <2>1. unsaved' /\ UNCHANGED <<file, raced>>
    BY <1>6 DEF FailSave
  <2>2. pc'[t] \notin {"open", "write"}
    BY <1>1, <1>6, ConfigAssumption DEF FailSave, Return, Goto, TypeOK, Threads
  <2>3. \A u \in Threads : Writing(u)' => Writing(u) /\ pc'[u] = pc[u]
    BY <1>1, <2>2 DEF Writing, TypeOK
  <2>4. OneWriter'
    BY <2>1, <2>3 DEF FileInv, OneWriter, At, Writing
  <2>5. FileFollows'
    BY <2>1 DEF FileFollows
  <2> QED BY <1>2, <2>4, <2>5 DEF FileInv
<1> QED BY <1>3, <1>4, <1>5, <1>6 DEF Save

LEMMA FileProcess ==
    ASSUME TypeOK, FileInv, Load \/ Migrate \/ Listen \/ FailListen \/ Exit \/ Crash
    PROVE  FileInv'
<1> USE ConfigAssumption DEF Threads, At, Goto, FileInv, DownIdle, OneWriter, FileFollows, AllIdle,
        Writing, Pending
<1>1. CASE Load
  <2>1. (file \notin {Unreadable, Absent} /\ mem' = file) \/ Pending(Main)'
    BY <1>1 DEF Load, LoadWith, Restored, Defaults, Keys, TypeOK
  <2> QED BY <1>1, <2>1 DEF Load, LoadWith, TypeOK
<1>2. CASE Migrate
  BY <1>2 DEF Migrate, TypeOK
<1>3. CASE Listen
  BY <1>3 DEF Listen, ServeIf, TypeOK, localVars
<1>4. CASE Exit \/ Crash \/ FailListen
  BY <1>4 DEF Exit, Crash, FailListen, GoDown
<1> QED BY <1>1, <1>2, <1>3, <1>4

LEMMA FileStep ==
    ASSUME TypeOK, FileInv, [Next]_vars
    PROVE  FileInv'
<1>1. CASE UNCHANGED vars
  BY <1>1 DEF vars, localVars, FileInv, DownIdle, OneWriter, FileFollows, AllIdle, At, Writing, Pending
<1>2. CASE \E t \in Threads : Save(t)
  BY <1>2, FileSave
<1>3. CASE Next /\ ~ \E t \in Threads : Save(t)
  BY <1>3, FileHandle, FileProcess DEF Next, Boot, Threads
<1> QED BY <1>1, <1>2, <1>3

(* When no request is under way the file holds the settings, unless saves  *)
(* overlapped or the last one failed: for any number of requests.          *)
THEOREM FileCurrent == Spec => []QuietFileCurrent
<1>1. FileInv => QuietFileCurrent
  BY DEF FileInv, FileFollows, QuietFileCurrent, Quiet, AllIdle, Pending, Writing, At, Threads
<1> QED BY <1>1, FileInit, FileStep, ConfigTypeCorrect, PTL DEF Spec

-----------------------------------------------------------------------------
(* A restart keeps the settings.                                           *)

(* What a hub that went down with all saved left behind, and its token.    *)
DownFile == At(Main, "down") /\ savedDown /\ ~raced /\ ~unsaved => file = mem
TokenSet == ~At(Main, "down") \/ savedDown => mem["token"] # 0
RestartInv == DownFile /\ TokenSet

LEMMA RestartStep ==
    ASSUME TypeOK, FileInv, RestartInv, [Next]_vars
    PROVE  RestartInv'
<1> USE ConfigAssumption DEF Threads, At, Goto, RestartInv, DownFile, TokenSet
<1>1. CASE UNCHANGED vars
  BY <1>1 DEF vars
<1>2. ASSUME NEW h \in Handlers, Post(h) \/ DeleteLayout(h) \/ Handle(h), ~Save(h)
      PROVE  RestartInv'
  <2>1. pc'[Main] = pc[Main] /\ pc[Main] # "down" /\ savedDown' = savedDown
    BY <1>2 DEF Post, DeleteLayout, Handle, ChangePort, PortBecomes, KeepPort, RegenToken, ChangeSetting, Assign,
       Reject, AllApplied, EndApply, Reply, Answer, Return, TypeOK, FileInv, DownIdle, AllIdle
  <2>2. mem'["token"] # 0
    BY <1>2, <2>1 DEF Post, DeleteLayout, Handle, ChangePort, PortBecomes, KeepPort, RegenToken, ChangeSetting,
       Assign, Reject, AllApplied, EndApply, Reply, Answer, Return, TypeOK, Config, Keys
  <2> QED BY <2>1, <2>2
<1>3. ASSUME NEW t \in Threads, Save(t) PROVE RestartInv'
  BY <1>3 DEF Save, Serialize, Truncate, WriteText, FailSave, AfterSave, Writing, TypeOK, FileInv,
     DownIdle, AllIdle
<1>4. CASE Load
  BY <1>4 DEF Load, LoadWith, Restored, Defaults, Keys, Config, TypeOK
<1>5. CASE Migrate \/ Listen
  BY <1>5 DEF Migrate, Listen, ServeIf, TypeOK, Config, Keys
<1>6. CASE Exit \/ Crash \/ FailListen
  <2>1. GoDown /\ ~At(Main, "down")
    BY <1>6 DEF Exit, Crash, FailListen
  <2>2. (\A t \in Threads : ~Pending(t) /\ ~Writing(t)) => file = mem \/ raced \/ unsaved
    BY <2>1 DEF FileInv, FileFollows
  <2> QED BY <2>1, <2>2 DEF GoDown, TypeOK
<1> QED BY <1>1, <1>2, <1>3, <1>4, <1>5, <1>6 DEF Next, Boot

(* A hub that went down with nothing left to save comes back with every    *)
(* setting and the token it had.                                           *)
THEOREM RestartIsSafe == Spec => RestartKeepsSettings
<1>1. Init => RestartInv
  BY DEF Init, RestartInv, DownFile, TokenSet, At, Threads
<1>2. ASSUME TypeOK, RestartInv, Load, savedDown PROVE mem' = mem \/ raced \/ unsaved
  BY <1>2, NotConfig DEF RestartInv, DownFile, TokenSet, Load, LoadWith, Restored, TypeOK, At
<1>3. TypeOK /\ RestartInv => [Load /\ savedDown => mem' = mem \/ raced \/ unsaved]_vars
  BY <1>2
<1> QED BY <1>1, <1>3, FileInit, FileStep, RestartStep, ConfigTypeCorrect, PTL
           DEF Spec, RestartKeepsSettings
=============================================================================
