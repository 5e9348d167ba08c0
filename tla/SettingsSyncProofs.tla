-------------------------- MODULE SettingsSyncProofs --------------------------
(***************************************************************************)
(* Proofs about SettingsSync, for every set of hosts, every form and every *)
(* number of changes and faults.                                           *)
(***************************************************************************)
EXTENDS SettingsSync, SequenceTheorems, TLAPS

-----------------------------------------------------------------------------
(* Settings.                                                               *)

LEMMA EmptyIsAValue ==
  /\ Empty \in Value /\ Default \in Value
  /\ Nothing \in Settings /\ BuiltIn \in Settings
BY DEF Value, Nothing, BuiltIn, Settings

LEMMA OnlyTypes ==
  ASSUME NEW s \in Settings, NEW F
  PROVE  Only(s, F) \in Settings
BY EmptyIsAValue DEF Only, Settings

LEMMA OverrideTypes ==
  ASSUME NEW s \in Settings, NEW r \in Settings, NEW F
  PROVE  Override(s, r, F) \in Settings
BY DEF Override, Settings

LEMMA EnteredTypes ==
  ASSUME StoreTypes, edits < MaxEdits, NEW h \in Host, NEW F
  PROVE  /\ edits + 1 \in 0..MaxEdits
         /\ Entered(h, F) \in Settings
         /\ \A f \in Field : Entered(h, F)[f] \in {Empty, <<h, edits + 1>>}
<1>1. edits + 1 \in 0..MaxEdits
  BY BoundAssumption DEF StoreTypes
<1>2. <<h, edits + 1>> \in Value
  BY <1>1 DEF Value
<1>3. [f \in Field |-> <<h, edits + 1>>] \in Settings
  BY <1>2 DEF Settings
<1>4. QED BY <1>1, <1>3, OnlyTypes DEF Entered, Only

LEMMA AfterStartTypes ==
  ASSUME NEW s \in Settings PROVE AfterStart(s) \in Settings
BY EmptyIsAValue, OverrideTypes DEF AfterStart

-----------------------------------------------------------------------------
(* Goroutines.                                                             *)

\* What goroutine t of h does leaves the others where they are.
Alone(h, t) ==
    \A x \in Host, u \in Thread : x # h \/ u # t =>
        /\ at'[x][u] = at[x][u] /\ todo'[x][u] = todo[x][u]
        /\ snap'[x][u] = snap[x][u] /\ sha'[x][u] = sha[x][u]

LEMMA GotoTypes ==
  ASSUME OpTypes, NEW h \in Host, NEW t \in Thread,
         NEW p \in Phase, NEW s \in Settings, Goto(h, t, p, s)
  PROVE  /\ at' \in [Host -> [Thread -> Phase]]
         /\ snap' \in [Host -> [Thread -> Settings]]
         /\ at'[h][t] = p /\ snap'[h][t] = s
         /\ \A x \in Host, u \in Thread : x # h \/ u # t =>
                at'[x][u] = at[x][u] /\ snap'[x][u] = snap[x][u]
BY DEF OpTypes, Goto

LEMMA ContinueTypes ==
  ASSUME OpTypes, NEW h \in Host, NEW t \in Thread,
         NEW q \in Seq(Task), Continue(h, t, q)
  PROVE  /\ at' \in [Host -> [Thread -> Phase]]
         /\ snap' \in [Host -> [Thread -> Settings]]
         /\ todo' \in [Host -> [Thread -> Seq(Task)]]
         /\ at'[h][t] \in Task \cup {"idle"} /\ snap'[h][t] = Nothing
         /\ at'[h][t] = "idle" => todo'[h][t] = <<>>
         /\ \A x \in Host, u \in Thread : x # h \/ u # t =>
                /\ at'[x][u] = at[x][u] /\ snap'[x][u] = snap[x][u]
                /\ todo'[x][u] = todo[x][u]
<1>1. CASE q = <<>>
  <2>1. Goto(h, t, "idle", Nothing) /\ "idle" \in Phase /\ <<>> \in Seq(Task)
    BY <1>1 DEF Continue, Phase
  <2>2. todo' = [todo EXCEPT ![h][t] = <<>>]
    BY <1>1 DEF Continue
  <2>3. /\ todo' \in [Host -> [Thread -> Seq(Task)]] /\ todo'[h][t] = <<>>
        /\ \A x \in Host, u \in Thread : x # h \/ u # t => todo'[x][u] = todo[x][u]
    BY <2>1, <2>2 DEF OpTypes
  <2>4. QED BY <2>1, <2>3, GotoTypes, EmptyIsAValue
<1>2. CASE q # <<>>
  <2>1. Head(q) \in Task /\ Tail(q) \in Seq(Task)
    BY <1>2
  <2>2. Goto(h, t, Head(q), Nothing) /\ Head(q) \in Phase /\ Head(q) # "idle"
    BY <1>2, <2>1 DEF Continue, Phase, Task
  <2>3. todo' = [todo EXCEPT ![h][t] = Tail(q)]
    BY <1>2 DEF Continue
  <2>4. /\ todo' \in [Host -> [Thread -> Seq(Task)]]
        /\ \A x \in Host, u \in Thread : x # h \/ u # t => todo'[x][u] = todo[x][u]
    BY <2>1, <2>3 DEF OpTypes
  <2>5. QED BY <2>1, <2>2, <2>4, GotoTypes, EmptyIsAValue
<1>3. QED BY <1>1, <1>2

\* A goroutine that goes on with its tasks, and has not been told a SHA.
LEMMA ContinuesAlone ==
  ASSUME OpTypes, NEW h \in Host, NEW t \in Thread,
         NEW q \in Seq(Task), Continue(h, t, q), UNCHANGED sha, sha[h][t] = Empty
  PROVE  OpTypes' /\ Alone(h, t) /\ Coherent(h, t)'
<1>1. OpTypes'
  BY ContinueTypes DEF OpTypes
<1>2. Alone(h, t)
  BY ContinueTypes DEF Alone
<1>3. Coherent(h, t)'
  BY ContinueTypes DEF Coherent
<1>4. QED BY <1>1, <1>2, <1>3

\* If the goroutine that moves stays coherent, all do.
LEMMA AloneCoherent ==
  ASSUME TypeOK, NEW h \in Host, NEW t \in Thread,
         Alone(h, t), Coherent(h, t)'
  PROVE  \A x \in Host, u \in Thread : Coherent(x, u)'
<1> TAKE x \in Host, u \in Thread
<1>1. CASE x = h /\ u = t
  BY <1>1
<1>2. CASE x # h \/ u # t
  BY <1>2 DEF Alone, TypeOK, Coherent
<1>3. QED BY <1>1, <1>2

LEMMA InitTypes == Init => TypeOK
<1> SUFFICES ASSUME Init PROVE TypeOK
  OBVIOUS
<1>1. 0 \in 0..MaxEdits /\ 0 \in 0..MaxFaults
  BY BoundAssumption
<1>2. \A h \in Host : FirstSettings(h) \in Settings
  <2> TAKE h \in Host
  <2>1. <<h, 0>> \in Value
    BY <1>1 DEF Value
  <2>2. QED BY <2>1, EmptyIsAValue DEF FirstSettings, Settings
<1>3. repo \in Settings /\ raw \in Settings
  BY <1>2, OnlyTypes, FormAssumption DEF Init, FirstPush
<1>4. StoreTypes
  BY <1>1, <1>2, <1>3, OnlyTypes DEF Init, StoreTypes
<1>5. OpTypes
  BY EmptyIsAValue DEF Init, OpTypes, Phase
<1>6. \A h \in Host, t \in Thread : Coherent(h, t)
  BY DEF Init, Coherent
<1>7. QED BY <1>4, <1>5, <1>6 DEF TypeOK

LEMMA EditTypes ==
  ASSUME TypeOK, NEW h \in Host, NEW new \in Settings, NEW q \in Seq(Task),
         Edit(h, new, q)
  PROVE  TypeOK'
<1> DEFINE t == "handler"
<1>1. /\ t \in Thread /\ Continue(h, t, q)
      /\ UNCHANGED sha /\ sha[h][t] = Empty
  BY DEF Edit, Thread, TypeOK, Coherent
<1>2. edits + 1 \in 0..MaxEdits
  BY BoundAssumption DEF Edit, TypeOK, StoreTypes
<1>3. StoreTypes'
  BY <1>2 DEF Edit, TypeOK, StoreTypes
<1> HIDE DEF t
<1>4. OpTypes' /\ Alone(h, t) /\ Coherent(h, t)'
  BY <1>1, ContinuesAlone DEF TypeOK, Coherent
<1>5. QED BY <1>1, <1>3, <1>4, AloneCoherent DEF TypeOK

\* What a form makes of the settings: what is never pulled is the old value, none
\* or entered here, and no pulled setting becomes empty.
FromForm(h, new) ==
    /\ \A f \in Field \ Pulled : new[f] \in {Empty, cfg[h][f], <<h, edits + 1>>}
    /\ \A f \in Pulled : cfg[h][f] # Empty => new[f] # Empty

LEMMA UserEdits ==
  ASSUME TypeOK, NEW h \in Host, User(h)
  PROVE  \E new \in Settings, q \in Seq(Task) : Edit(h, new, q) /\ FromForm(h, new)
<1>0. cfg[h] \in Settings /\ StoreTypes
  BY DEF TypeOK, StoreTypes
<1>1. <<"save", "push">> \in Seq(Task) /\ <<"save">> \in Seq(Task)
  BY DEF Task
<1>2. ASSUME NEW F, edits < MaxEdits
      PROVE  /\ Entered(h, F) \in Settings
             /\ Override(cfg[h], Entered(h, F), Field) \in Settings
             /\ FromForm(h, Override(cfg[h], Entered(h, F), Field))
  <2>1. /\ Entered(h, F) \in Settings
        /\ \A f \in Field : Entered(h, F)[f] \in {Empty, <<h, edits + 1>>}
    BY <1>0, <1>2, EnteredTypes
  <2>2. Pulled \subseteq Field
    BY DEF Field, Pulled
  <2>3. QED BY <1>0, <2>1, <2>2, OverrideTypes DEF Override, FromForm
<1>3. CASE PostSettings(h)
  <2>1. PICK F \in Form :
            Edit(h, [Override(cfg[h], Entered(h, F), Field)
                        EXCEPT !["schedule"] = Entered(h, F)["schedule"]],
                 <<"save", "push">>)
    BY <1>3 DEF PostSettings
  <2> DEFINE old == Override(cfg[h], Entered(h, F), Field)
             new == [old EXCEPT !["schedule"] = Entered(h, F)["schedule"]]
  <2>2. edits < MaxEdits
    BY <2>1 DEF Edit
  <2>3. /\ old \in Settings /\ FromForm(h, old) /\ Entered(h, F) \in Settings
        /\ Entered(h, F)["schedule"] \in {Empty, <<h, edits + 1>>}
    <3>1. "schedule" \in Field
      BY DEF Field
    <3>2. QED BY <1>0, <1>2, <2>2, <3>1, EnteredTypes
  <2> HIDE DEF old
  <2>4. new \in Settings /\ FromForm(h, new)
    <3>1. /\ new \in Settings
          /\ \A f \in Field : f # "schedule" => new[f] = old[f]
          /\ new["schedule"] = Entered(h, F)["schedule"]
      BY <2>3 DEF Settings, Field
    <3>2. "schedule" \notin Pulled /\ Pulled \subseteq Field
      BY DEF Pulled, Field
    <3>3. QED BY <2>3, <3>1, <3>2 DEF FromForm
  <2>5. Edit(h, new, <<"save", "push">>)
    BY <2>1 DEF old
  <2> HIDE DEF new
  <2>6. QED BY <1>1, <2>4, <2>5
<1>4. CASE Setup(h)
  <2>1. PICK F \in {G \cap {"url", "fps"} : G \in Form} :
            Edit(h, Override(cfg[h], Entered(h, F), Field), <<"save">>)
    BY <1>4 DEF Setup
  <2>2. edits < MaxEdits
    BY <2>1 DEF Edit
  <2>3. QED BY <1>1, <1>2, <2>1, <2>2
<1>5. QED BY <1>3, <1>4 DEF User

LEMMA UserTypes ==
  ASSUME TypeOK, NEW h \in Host, User(h) PROVE TypeOK'
BY UserEdits, EditTypes

LEMMA FaultTypes == StoreTypes /\ (Fault \/ NoFault) => faults' \in 0..MaxFaults
BY BoundAssumption DEF StoreTypes, Fault, NoFault

\* The steps of saving and pushing.
LEMMA SaveTypes ==
  ASSUME TypeOK, NEW h \in Host, NEW t \in Thread,
         TakeSnapshot(h, t) \/ WriteFile(h, t) \/ BeginPush(h, t)
  PROVE  TypeOK'
<1>0. cfg[h] \in Settings /\ snap[h][t] \in Settings /\ todo[h][t] \in Seq(Task)
  BY DEF TypeOK, StoreTypes, OpTypes
<1>1. sha[h][t] = Empty /\ UNCHANGED sha
  BY DEF TypeOK, Coherent, TakeSnapshot, WriteFile, BeginPush
<1>2. CASE TakeSnapshot(h, t)
  <2>1. Only(cfg[h], Saved) \in Settings /\ "write" \in Phase
    BY <1>0, OnlyTypes DEF Phase
  <2>2. Goto(h, t, "write", Only(cfg[h], Saved)) /\ UNCHANGED todo
    BY <1>2 DEF TakeSnapshot
  <2>3. OpTypes' /\ Alone(h, t) /\ Coherent(h, t)'
    BY <1>1, <2>1, <2>2, GotoTypes DEF TypeOK, OpTypes, Alone, Coherent, Task
  <2>4. QED
    BY <1>2, <2>3, AloneCoherent DEF TakeSnapshot, TypeOK, StoreTypes
<1>3. CASE WriteFile(h, t) \/ BeginPush(h, t)
  <2>1. StoreTypes'
    <3>1. faults' \in 0..MaxFaults
      BY <1>3, FaultTypes DEF WriteFile, BeginPush, TypeOK, StoreTypes
    <3>2. QED BY <1>0, <1>3, <3>1, EmptyIsAValue DEF WriteFile, BeginPush, TypeOK, StoreTypes
  <2>2. PushOrGoOn(h, t) \/ Continue(h, t, todo[h][t])
    BY <1>3 DEF WriteFile, BeginPush
  <2>3. CASE Continue(h, t, todo[h][t])
    <3>1. OpTypes' /\ Alone(h, t) /\ Coherent(h, t)'
      BY <1>0, <1>1, <2>3, ContinuesAlone DEF TypeOK
    <3>2. QED BY <2>1, <3>1, AloneCoherent DEF TypeOK
  <2>4. CASE Goto(h, t, "get", Only(cfg[h], Pushed)) /\ UNCHANGED todo
    <3>1. Only(cfg[h], Pushed) \in Settings /\ "get" \in Phase
      BY <1>0, OnlyTypes DEF Phase
    <3>2. Goto(h, t, "get", Only(cfg[h], Pushed)) /\ UNCHANGED todo
      BY <2>4
    <3>3. OpTypes' /\ Alone(h, t) /\ Coherent(h, t)'
      BY <1>1, <3>1, <3>2, GotoTypes DEF TypeOK, OpTypes, Alone, Coherent, Task
    <3>4. QED BY <2>1, <3>3, AloneCoherent DEF TypeOK
  <2>5. QED BY <2>2, <2>3, <2>4 DEF PushOrGoOn
<1>4. QED BY <1>2, <1>3

LEMMA PushTypes ==
  ASSUME TypeOK, NEW h \in Host, NEW t \in Thread, GetSha(h, t) \/ Put(h, t)
  PROVE  TypeOK'
<1>0. snap[h][t] \in Settings /\ todo[h][t] \in Seq(Task) /\ StoreTypes /\ OpTypes
  BY DEF TypeOK, StoreTypes, OpTypes
<1>1. CASE GetSha(h, t)
  <2>1. Goto(h, t, "put", snap[h][t]) /\ UNCHANGED todo /\ "put" \in Phase
    BY <1>1 DEF GetSha, Phase
  <2>2. StoreTypes'
    BY <1>0, <1>1, FaultTypes DEF GetSha, StoreTypes
  <2>3. sha' \in [Host -> [Thread -> Settings \cup {Empty}]]
    <3>1. PICK v \in Settings \cup {Empty} : sha' = [sha EXCEPT ![h][t] = v]
      BY <1>0, <1>1 DEF GetSha, StoreTypes
    <3>2. QED BY <1>0, <3>1 DEF OpTypes
  <2>4. \A x \in Host, u \in Thread : x # h \/ u # t => sha'[x][u] = sha[x][u]
    BY <1>0, <1>1 DEF GetSha, OpTypes
  <2>5. OpTypes' /\ Alone(h, t)
    BY <1>0, <2>1, <2>3, <2>4, GotoTypes DEF OpTypes, Alone
  <2>6. Coherent(h, t)'
    BY <1>0, <2>1, GotoTypes DEF Coherent, Task
  <2>7. QED BY <2>2, <2>5, <2>6, AloneCoherent DEF TypeOK
<1>2. CASE Put(h, t)
  <2>1. Continue(h, t, todo[h][t]) /\ sha' = [sha EXCEPT ![h][t] = Empty]
    BY <1>2 DEF Put
  <2>2. StoreTypes'
    BY <1>0, <1>2 DEF Put, StoreTypes
  <2>3. OpTypes' /\ Alone(h, t) /\ Coherent(h, t)'
    BY <1>0, <2>1, ContinueTypes DEF OpTypes, Alone, Coherent
  <2>4. QED BY <2>2, <2>3, AloneCoherent DEF TypeOK
<1>3. QED BY <1>1, <1>2

LEMMA SyncTypes ==
  ASSUME TypeOK, NEW h \in Host, NEW t \in Thread,
         StartSync(h, t) \/ Fetch(h, t) \/ Apply(h, t) \/ StartServing(h, t)
  PROVE  TypeOK'
<1>0. snap[h][t] \in Settings /\ todo[h][t] \in Seq(Task) /\ StoreTypes /\ OpTypes
  BY DEF TypeOK, StoreTypes, OpTypes
<1>1. sha[h][t] = Empty /\ UNCHANGED sha
  BY DEF TypeOK, Coherent, StartSync, Fetch, Apply, StartServing
<1>2. StoreTypes'
  <2>1. CASE Apply(h, t)
    <3>1. Override(cfg[h], snap[h][t], Taken(snap[h][t])) \in Settings
      BY <1>0, OverrideTypes DEF StoreTypes
    <3>2. QED BY <1>0, <2>1, <3>1 DEF Apply, StoreTypes
  <2>2. CASE StartSync(h, t) \/ Fetch(h, t) \/ StartServing(h, t)
    BY <1>0, <2>2, FaultTypes DEF StartSync, Fetch, StartServing, StoreTypes, NoFault
  <2>3. QED BY <2>1, <2>2
<1>3. \/ Goto(h, t, "apply", raw) /\ UNCHANGED todo
      \/ Continue(h, t, todo[h][t])
      \/ Continue(h, t, <<"save">> \o todo[h][t])
  BY DEF StartSync, Fetch, Apply, StartServing
<1>4. CASE Goto(h, t, "apply", raw) /\ UNCHANGED todo
  <2>1. "apply" \in Phase /\ raw \in Settings
    BY <1>0 DEF Phase, StoreTypes
  <2>2. OpTypes' /\ Alone(h, t) /\ Coherent(h, t)'
    BY <1>0, <1>1, <1>4, <2>1, GotoTypes DEF OpTypes, Alone, Coherent, Task
  <2>3. QED BY <1>2, <2>2, AloneCoherent DEF TypeOK
<1>5. CASE Continue(h, t, todo[h][t]) \/ Continue(h, t, <<"save">> \o todo[h][t])
  <2>1. <<"save">> \o todo[h][t] \in Seq(Task)
    <3>1. <<"save">> \in Seq(Task)
      BY DEF Task
    <3>2. QED BY <1>0, <3>1
  <2>2. OpTypes' /\ Alone(h, t) /\ Coherent(h, t)'
    BY <1>0, <1>1, <1>5, <2>1, ContinuesAlone
  <2>3. QED BY <1>2, <2>2, AloneCoherent DEF TypeOK
<1>6. QED BY <1>3, <1>4, <1>5

LEMMA RestartTypes ==
  ASSUME TypeOK, NEW h \in Host, Restart(h) PROVE TypeOK'
<1>0. StoreTypes /\ OpTypes
  BY DEF TypeOK
<1>1. PICK torn \in BOOLEAN :
        LET onDisk == IF torn THEN Nothing ELSE file[h] IN
        /\ file' = [file EXCEPT ![h] = onDisk]
        /\ cfg' = [cfg EXCEPT ![h] = AfterStart(onDisk)]
  BY DEF Restart
<1>2. (IF torn THEN Nothing ELSE file[h]) \in Settings
  BY <1>0, EmptyIsAValue DEF StoreTypes
<1>3. StoreTypes'
  BY <1>0, <1>1, <1>2, AfterStartTypes, FaultTypes DEF Restart, StoreTypes
<1>4. /\ at'   = [at EXCEPT ![h] = [t \in Thread |->
                     IF t = "main" THEN "save" ELSE "idle"]]
      /\ todo' = [todo EXCEPT ![h] = [t \in Thread |->
                     IF t = "main" THEN <<"save", "fetch", "save", "serve">> ELSE <<>>]]
      /\ snap' = [snap EXCEPT ![h] = [t \in Thread |-> Nothing]]
      /\ sha'  = [sha EXCEPT ![h] = [t \in Thread |-> Empty]]
  BY DEF Restart
<1>5. "save" \in Phase /\ "idle" \in Phase
  BY DEF Phase, Task
<1>6. <<"save", "fetch", "save", "serve">> \in Seq(Task) /\ <<>> \in Seq(Task)
  BY DEF Task
<1>7. OpTypes'
  BY <1>0, <1>4, <1>5, <1>6, EmptyIsAValue DEF OpTypes
<1>8. \A x \in Host, u \in Thread : Coherent(x, u)'
  <2> TAKE x \in Host, u \in Thread
  <2>1. CASE x = h
    BY <1>0, <1>4, <2>1 DEF OpTypes, Coherent
  <2>2. CASE x # h
    BY <1>0, <1>4, <2>2 DEF OpTypes, TypeOK, Coherent
  <2>3. QED BY <2>1, <2>2
<1>9. QED BY <1>3, <1>7, <1>8 DEF TypeOK

LEMMA NextTypes == TypeOK /\ [Next]_vars => TypeOK'
<1> SUFFICES ASSUME TypeOK, [Next]_vars PROVE TypeOK'
  OBVIOUS
<1>1. ASSUME NEW h \in Users, User(h) PROVE TypeOK'
  BY <1>1, UserTypes, FormAssumption
<1>2. ASSUME NEW h \in Restarting, Restart(h) PROVE TypeOK'
  BY <1>2, RestartTypes, FormAssumption
<1>3. ASSUME NEW h \in Host, NEW t \in Thread, StartSync(h, t) \/ Work(h, t)
      PROVE  TypeOK'
  BY <1>3, SaveTypes, PushTypes, SyncTypes DEF Work
<1>4. CASE Deliver
  BY <1>4 DEF Deliver, TypeOK, StoreTypes, OpTypes, Coherent
<1>5. CASE UNCHANGED vars
  BY <1>5 DEF vars, TypeOK, StoreTypes, OpTypes, Coherent
<1>6. QED BY <1>1, <1>2, <1>3, <1>4, <1>5 DEF Next

\* The settings and the goroutines are well typed and coherent in every
\* behaviour: an idle goroutine has nothing left to do.
THEOREM TypeCorrect == Spec => []TypeOK
<1>1. QED BY InitTypes, NextTypes, PTL DEF Spec
-----------------------------------------------------------------------------
(* Secrets.                                                                *)

\* What goroutine t of h holds: a token only to write it to the file of h, or as
\* a part of the old copy that it leaves alone.
InFlight(h, t) ==
    /\ at[h][t] # "apply" => snap[h][t]["token"] \in Own(h)
    /\ at[h][t] \in {"get", "put"} => snap[h][t]["token"] = Empty

\* The token that an older version may have pushed.
OldTokens == {Empty, <<LastPusher, 0>>}

LEMMA SecretParts ==
  SecretsStayLocal <=>
    /\ repo["token"] \in OldTokens /\ raw["token"] \in OldTokens
    /\ \A h \in Host : cfg[h]["token"] \in Own(h) /\ file[h]["token"] \in Own(h)
    /\ \A h \in Host, t \in Thread : InFlight(h, t)
BY DEF SecretsStayLocal, Secret, InFlight, OldTokens

LEMMA SecretPartsNext ==
  SecretsStayLocal' <=>
    /\ repo'["token"] \in OldTokens /\ raw'["token"] \in OldTokens
    /\ \A h \in Host : cfg'[h]["token"] \in Own(h) /\ file'[h]["token"] \in Own(h)
    /\ \A h \in Host, t \in Thread : InFlight(h, t)'
BY DEF SecretsStayLocal, Secret, InFlight, Own, OldTokens

LEMMA Tokens ==
  /\ "token" \in Field /\ "token" \notin Pulled /\ "token" \notin Pushed
  /\ Nothing["token"] = Empty /\ BuiltIn["token"] = Empty
  /\ \A h : Empty \in Own(h)
BY DEF Field, Pulled, Pushed, Nothing, BuiltIn, Own

LEMMA GotoInFlight ==
  ASSUME OpTypes, \A x \in Host, u \in Thread : InFlight(x, u),
         NEW h \in Host, NEW t \in Thread, NEW p \in Phase, NEW s \in Settings,
         Goto(h, t, p, s), p # "apply" => s["token"] \in Own(h),
         p \in {"get", "put"} => s["token"] = Empty
  PROVE  \A x \in Host, u \in Thread : InFlight(x, u)'
<1> TAKE x \in Host, u \in Thread
<1>1. CASE x = h /\ u = t
  BY <1>1, GotoTypes DEF InFlight, Own
<1>2. CASE x # h \/ u # t
  <2>1. at'[x][u] = at[x][u] /\ snap'[x][u] = snap[x][u]
    BY <1>2, GotoTypes
  <2>2. QED BY <2>1 DEF InFlight, Own
<1>3. QED BY <1>1, <1>2

LEMMA ContinueInFlight ==
  ASSUME OpTypes, \A x \in Host, u \in Thread : InFlight(x, u),
         NEW h \in Host, NEW t \in Thread, NEW q \in Seq(Task), Continue(h, t, q)
  PROVE  \A x \in Host, u \in Thread : InFlight(x, u)'
<1> TAKE x \in Host, u \in Thread
<1>1. CASE x = h /\ u = t
  BY <1>1, ContinueTypes, Tokens DEF InFlight, Own
<1>2. CASE x # h \/ u # t
  <2>1. at'[x][u] = at[x][u] /\ snap'[x][u] = snap[x][u]
    BY <1>2, ContinueTypes
  <2>2. QED BY <2>1 DEF InFlight, Own
<1>3. QED BY <1>1, <1>2

LEMMA InitSecrets == Init => SecretsStayLocal
<1> SUFFICES ASSUME Init PROVE SecretsStayLocal
  OBVIOUS
<1>1. \A h \in Host : FirstSettings(h)["token"] = <<h, 0>> /\ <<h, 0>> \in Own(h)
  BY BoundAssumption, Tokens DEF FirstSettings, BuiltIn, Nothing, Own
<1>2. repo["token"] \in OldTokens /\ raw["token"] \in OldTokens
  <2>1. FirstSettings(LastPusher)["token"] \in OldTokens /\ Empty \in OldTokens
    BY <1>1, FormAssumption DEF OldTokens
  <2>2. QED BY <2>1, Tokens DEF Init, FirstPush, Only
<1>3. \A h \in Host : cfg[h]["token"] \in Own(h) /\ file[h]["token"] \in Own(h)
  BY <1>1, Tokens DEF Init, Only
<1>4. \A h \in Host, t \in Thread : InFlight(h, t)
  BY Tokens DEF Init, InFlight
<1>5. QED BY <1>2, <1>3, <1>4, SecretParts

\* A form changes the token of the host to one that is entered there.
LEMMA EditSecrets ==
  ASSUME TypeOK, SecretsStayLocal, NEW h \in Host, User(h)
  PROVE  SecretsStayLocal'
<1>1. PICK new \in Settings, q \in Seq(Task) : Edit(h, new, q) /\ FromForm(h, new)
  BY UserEdits
<1>2. <<h, edits + 1>> \in Own(h)
  BY <1>1, BoundAssumption DEF Edit, Own, TypeOK, StoreTypes
<1>3. new["token"] \in Own(h)
  BY <1>1, <1>2, SecretParts, Tokens DEF FromForm
<1>4. \A x \in Host : cfg'[x]["token"] \in Own(x)
  BY <1>1, <1>3, SecretParts DEF Edit, TypeOK, StoreTypes
<1>5. \A x \in Host, u \in Thread : InFlight(x, u)'
  <2>1. Continue(h, "handler", q) /\ "handler" \in Thread
    BY <1>1 DEF Edit, Thread
  <2>2. QED BY <1>1, <2>1, ContinueInFlight, SecretParts DEF TypeOK
<1>6. UNCHANGED <<file, repo, raw>>
  BY <1>1 DEF Edit
<1>7. QED BY <1>4, <1>5, <1>6, SecretParts, SecretPartsNext

LEMMA SaveSecrets ==
  ASSUME TypeOK, SecretsStayLocal, NEW h \in Host, NEW t \in Thread, Work(h, t),
         ~Apply(h, t), ~Fetch(h, t), ~Put(h, t)
  PROVE  /\ \A x \in Host, u \in Thread : InFlight(x, u)'
         /\ \A x \in Host : file'[x]["token"] \in Own(x)
         /\ UNCHANGED <<cfg, repo, raw>>
<1>0. /\ OpTypes /\ StoreTypes
      /\ cfg[h] \in Settings /\ snap[h][t] \in Settings
      /\ todo[h][t] \in Seq(Task) /\ InFlight(h, t)
      /\ \A x \in Host, u \in Thread : InFlight(x, u)
  BY SecretParts DEF TypeOK, OpTypes, StoreTypes
<1>1. \A x \in Host : file'[x]["token"] \in Own(x)
  BY <1>0, SecretParts, Tokens
  DEF Work, TakeSnapshot, WriteFile, BeginPush, GetSha, StartServing, StoreTypes, InFlight
<1>2. UNCHANGED <<cfg, repo, raw>>
  BY DEF Work, TakeSnapshot, WriteFile, BeginPush, GetSha, StartServing
<1>3. CASE TakeSnapshot(h, t)
  <2>1. Goto(h, t, "write", Only(cfg[h], Saved)) /\ "write" \in Phase
    BY <1>3 DEF TakeSnapshot, Phase
  <2>2. Only(cfg[h], Saved) \in Settings /\ Only(cfg[h], Saved)["token"] \in Own(h)
    BY <1>0, SecretParts, OnlyTypes, Tokens DEF Only
  <2>3. QED BY <1>0, <1>1, <1>2, <2>1, <2>2, GotoInFlight
<1>4. CASE PushOrGoOn(h, t) \/ Continue(h, t, todo[h][t])
  <2>1. CASE Continue(h, t, todo[h][t])
    BY <1>0, <1>1, <1>2, <2>1, ContinueInFlight
  <2>2. CASE Goto(h, t, "get", Only(cfg[h], Pushed))
    <3>1. Only(cfg[h], Pushed) \in Settings /\ Only(cfg[h], Pushed)["token"] = Empty
      BY <1>0, OnlyTypes, Tokens DEF Only
    <3>2. "get" \in Phase
      BY DEF Phase
    <3>3. QED BY <1>0, <1>1, <1>2, <2>2, <3>1, <3>2, Tokens, GotoInFlight
  <2>3. QED BY <1>4, <2>1, <2>2 DEF PushOrGoOn
<1>5. CASE GetSha(h, t)
  <2>1. Goto(h, t, "put", snap[h][t]) /\ at[h][t] = "get" /\ "put" \in Phase
    BY <1>5 DEF GetSha, Phase
  <2>2. QED BY <1>0, <1>1, <1>2, <2>1, GotoInFlight DEF InFlight
<1>6. CASE StartServing(h, t)
  BY <1>0, <1>1, <1>2, <1>6, ContinueInFlight DEF StartServing
<1>7. QED BY <1>3, <1>4, <1>5, <1>6 DEF Work, WriteFile, BeginPush

LEMMA SyncSecrets ==
  ASSUME TypeOK, SecretsStayLocal, NEW h \in Host, NEW t \in Thread,
         StartSync(h, t) \/ Fetch(h, t) \/ Apply(h, t) \/ Put(h, t)
  PROVE  /\ \A x \in Host, u \in Thread : InFlight(x, u)'
         /\ \A x \in Host : cfg'[x]["token"] = cfg[x]["token"]
         /\ repo'["token"] \in OldTokens
         /\ UNCHANGED <<file, raw>>
<1>0. /\ OpTypes /\ StoreTypes
      /\ todo[h][t] \in Seq(Task) /\ InFlight(h, t)
      /\ \A x \in Host, u \in Thread : InFlight(x, u)
      /\ repo["token"] \in OldTokens /\ raw["token"] \in OldTokens
  BY SecretParts DEF TypeOK, OpTypes
<1>1. UNCHANGED <<file, raw>>
  BY DEF StartSync, Fetch, Apply, Put
<1>2. repo'["token"] \in OldTokens
  BY <1>0 DEF StartSync, Fetch, Apply, Put, InFlight, OldTokens
<1>3. \A x \in Host : cfg'[x]["token"] = cfg[x]["token"]
  BY <1>0, Tokens DEF StartSync, Fetch, Apply, Put, StoreTypes, Override, Taken
<1>4. \/ Goto(h, t, "apply", raw)
      \/ Continue(h, t, todo[h][t])
      \/ Continue(h, t, <<"save">> \o todo[h][t])
  BY DEF StartSync, Fetch, Apply, Put
<1>5. CASE Goto(h, t, "apply", raw)
  <2>1. "apply" \in Phase /\ raw \in Settings
    BY <1>0 DEF Phase, StoreTypes
  <2>2. QED BY <1>0, <1>1, <1>2, <1>3, <1>5, <2>1, Tokens, GotoInFlight
<1>6. CASE Continue(h, t, todo[h][t]) \/ Continue(h, t, <<"save">> \o todo[h][t])
  <2>1. <<"save">> \o todo[h][t] \in Seq(Task)
    <3>1. <<"save">> \in Seq(Task)
      BY DEF Task
    <3>2. QED BY <1>0, <3>1
  <2>2. QED BY <1>0, <1>1, <1>2, <1>3, <1>6, <2>1, ContinueInFlight
<1>7. QED BY <1>4, <1>5, <1>6

LEMMA RestartSecrets ==
  ASSUME TypeOK, SecretsStayLocal, NEW h \in Host, Restart(h)
  PROVE  SecretsStayLocal'
<1>0. OpTypes /\ StoreTypes /\ \A x \in Host, u \in Thread : InFlight(x, u)
  BY SecretParts DEF TypeOK
<1>1. PICK torn \in BOOLEAN :
        LET onDisk == IF torn THEN Nothing ELSE file[h] IN
        /\ file' = [file EXCEPT ![h] = onDisk]
        /\ cfg' = [cfg EXCEPT ![h] = AfterStart(onDisk)]
  BY DEF Restart
<1> DEFINE s == IF torn THEN Nothing ELSE file[h]
<1>7. s["token"] \in Own(h)
  BY SecretParts, Tokens DEF Own
<1>8. /\ file' = [file EXCEPT ![h] = s]
      /\ cfg' = [cfg EXCEPT ![h] = AfterStart(s)]
  BY <1>1
<1> HIDE DEF s
<1>2. AfterStart(s)["token"] \in Own(h)
  BY <1>7, Tokens DEF AfterStart, Override, BuiltIn, Own, Nothing, Loaded, Field
<1>3. \A x \in Host : cfg'[x]["token"] \in Own(x) /\ file'[x]["token"] \in Own(x)
  BY <1>0, <1>7, <1>8, <1>2, SecretParts DEF StoreTypes
<1>4. \A x \in Host, u \in Thread : InFlight(x, u)'
  <2> TAKE x \in Host, u \in Thread
  <2>1. CASE x = h
    <3>1. snap'[h][u] = Nothing
      BY <1>0 DEF Restart, OpTypes
    <3>2. QED BY <2>1, <3>1, Tokens DEF InFlight, Own
  <2>2. CASE x # h
    <3>1. snap'[x] = snap[x] /\ at'[x] = at[x]
      BY <1>0, <2>2 DEF Restart, OpTypes
    <3>2. QED BY <1>0, <3>1 DEF InFlight, Own
  <2>3. QED BY <2>1, <2>2
<1>5. UNCHANGED <<repo, raw>>
  BY DEF Restart
<1>6. QED BY <1>3, <1>4, <1>5, SecretParts, SecretPartsNext

LEMMA NextSecrets == TypeOK /\ SecretsStayLocal /\ [Next]_vars => SecretsStayLocal'
<1> SUFFICES ASSUME TypeOK, SecretsStayLocal, [Next]_vars PROVE SecretsStayLocal'
  OBVIOUS
<1>1. ASSUME NEW h \in Users, User(h) PROVE SecretsStayLocal'
  BY <1>1, EditSecrets, FormAssumption
<1>2. ASSUME NEW h \in Restarting, Restart(h) PROVE SecretsStayLocal'
  BY <1>2, RestartSecrets, FormAssumption
<1>3. ASSUME NEW h \in Host, NEW t \in Thread, StartSync(h, t) \/ Work(h, t)
      PROVE  SecretsStayLocal'
  <2>1. CASE StartSync(h, t) \/ Fetch(h, t) \/ Apply(h, t) \/ Put(h, t)
    <3>1. /\ \A x \in Host, u \in Thread : InFlight(x, u)'
          /\ \A x \in Host : cfg'[x]["token"] = cfg[x]["token"]
          /\ repo'["token"] \in OldTokens /\ UNCHANGED <<file, raw>>
      BY <2>1, SyncSecrets
    <3>2. QED BY <3>1, SecretParts, SecretPartsNext
  <2>2. CASE Work(h, t) /\ ~Apply(h, t) /\ ~Fetch(h, t) /\ ~Put(h, t)
    <3>1. /\ \A x \in Host, u \in Thread : InFlight(x, u)'
          /\ \A x \in Host : file'[x]["token"] \in Own(x)
          /\ UNCHANGED <<cfg, repo, raw>>
      BY <2>2, SaveSecrets
    <3>2. QED BY <3>1, SecretParts, SecretPartsNext
  <2>3. QED BY <1>3, <2>1, <2>2
<1>4. CASE Deliver
  BY <1>4 DEF Deliver, SecretsStayLocal, Own
<1>5. CASE UNCHANGED vars
  BY <1>5 DEF vars, SecretsStayLocal, Own
<1>6. QED BY <1>1, <1>2, <1>3, <1>4, <1>5 DEF Next

\* A token never leaves its host, whoever changes, saves, pushes, pulls or
\* restarts at the same time.
THEOREM TokensStay == Spec => []SecretsStayLocal
<1>1. QED BY InitTypes, NextTypes, InitSecrets, NextSecrets, PTL DEF Spec

-----------------------------------------------------------------------------
(* Addresses.                                                              *)

LEMMA NextKeeps ==
  ASSUME TypeOK, [Next]_vars, NEW h \in Host, NEW f \in Pulled,
         cfg[h][f] # Empty, cfg'[h][f] = Empty
  PROVE  Restart(h)
<1>0. cfg \in [Host -> Settings] /\ f \in Field
  BY DEF TypeOK, StoreTypes, Pulled, Field
<1>1. ASSUME NEW x \in Users, User(x) PROVE FALSE
  <2>1. x \in Host
    BY FormAssumption
  <2>2. PICK new \in Settings, q \in Seq(Task) : Edit(x, new, q) /\ FromForm(x, new)
    BY <1>1, <2>1, UserEdits
  <2>3. QED BY <1>0, <2>1, <2>2 DEF Edit, FromForm
<1>2. ASSUME NEW x \in Restarting, Restart(x) PROVE x = h
  BY <1>0, <1>2, FormAssumption DEF Restart
<1>3. ASSUME NEW x \in Host, NEW t \in Thread, StartSync(x, t) \/ Work(x, t)
      PROVE  FALSE
  <2>1. CASE Apply(x, t)
    BY <1>0, <2>1 DEF Apply, Override
  <2>2. CASE ~Apply(x, t)
    BY <1>0, <1>3, <2>2
    DEF StartSync, Work, TakeSnapshot, WriteFile, BeginPush, GetSha, Put, Fetch, StartServing
  <2>3. QED BY <2>1, <2>2
<1>4. CASE Deliver
  BY <1>4 DEF Deliver
<1>5. CASE UNCHANGED vars
  BY <1>5 DEF vars
<1>6. QED BY <1>1, <1>2, <1>3, <1>4, <1>5 DEF Next

\* Only a restart takes from a host an address it has.
THEOREM AddressesAreKept == Spec => KeptWhileRunning
<1>1. ASSUME TypeOK, [Next]_vars
      PROVE  [\A h \in Host : \A f \in Pulled :
                cfg[h][f] # Empty /\ cfg'[h][f] = Empty => Restart(h)]_vars
  BY <1>1, NextKeeps
<1>2. QED BY <1>1, TypeCorrect, PTL DEF Spec, KeptWhileRunning
-----------------------------------------------------------------------------
(* Settings that are never pulled, and settings that are never empty.      *)

Local == Field \ Pulled

\* What a host uses and stores of them was entered there.
LocalStays ==
    \A h \in Host : \A f \in Local : cfg[h][f] \in Own(h) /\ file[h][f] \in Own(h)

\* And what it is about to store.
LocalWrites ==
    \A h \in Host, t \in Thread :
        at[h][t] = "write" => \A f \in Local : snap[h][t][f] \in Own(h)

RatesAreSet == \A h \in Host : cfg[h]["fps"] # Empty /\ cfg[h]["interval"] # Empty

LocalInv == LocalStays /\ LocalWrites /\ RatesAreSet

LEMMA LocalFields ==
  /\ Local \subseteq Field /\ Local \cap Pulled = {} /\ {"fps", "interval"} \subseteq Field
  /\ \A f \in Local : Nothing[f] = Empty /\ BuiltIn[f] = Empty
  /\ BuiltIn["fps"] = Default /\ BuiltIn["interval"] = Default
  /\ \A h : Empty \in Own(h)
  /\ "write" \notin Task \cup {"idle"}
BY DEF Local, Field, Pulled, Nothing, BuiltIn, Own, Task

\* A goroutine that goes on, or moves to another phase than the write of the file.
LEMMA ContinueLocal ==
  ASSUME OpTypes, LocalWrites, NEW h \in Host, NEW t \in Thread,
         NEW q \in Seq(Task), Continue(h, t, q)
  PROVE  LocalWrites'
<1> SUFFICES ASSUME NEW x \in Host, NEW u \in Thread, at'[x][u] = "write"
             PROVE  \A f \in Local : snap'[x][u][f] \in Own(x)
  BY DEF LocalWrites, Own
<1>1. x # h \/ u # t
  BY ContinueTypes, LocalFields
<1>2. at'[x][u] = at[x][u] /\ snap'[x][u] = snap[x][u]
  BY <1>1, ContinueTypes
<1>3. QED BY <1>2 DEF LocalWrites

LEMMA GotoLocal ==
  ASSUME OpTypes, LocalWrites, NEW h \in Host, NEW t \in Thread, NEW p \in Phase,
         NEW s \in Settings, Goto(h, t, p, s),
         p = "write" => \A f \in Local : s[f] \in Own(h)
  PROVE  LocalWrites'
<1> SUFFICES ASSUME NEW x \in Host, NEW u \in Thread, at'[x][u] = "write"
             PROVE  \A f \in Local : snap'[x][u][f] \in Own(x)
  BY DEF LocalWrites, Own
<1>1. CASE x = h /\ u = t
  BY <1>1, GotoTypes
<1>2. CASE x # h \/ u # t
  <2>1. at'[x][u] = at[x][u] /\ snap'[x][u] = snap[x][u]
    BY <1>2, GotoTypes
  <2>2. QED BY <2>1 DEF LocalWrites
<1>3. QED BY <1>1, <1>2

LEMMA EditLocal ==
  ASSUME TypeOK, LocalInv, NEW h \in Host, User(h)
  PROVE  LocalInv'
<1>1. PICK new \in Settings, q \in Seq(Task) : Edit(h, new, q) /\ FromForm(h, new)
  BY UserEdits
<1>2. <<h, edits + 1>> \in Own(h)
  BY <1>1, BoundAssumption DEF Edit, Own, TypeOK, StoreTypes
<1>3. \A x \in Host : cfg'[x] = IF x = h THEN new ELSE cfg[x]
  BY <1>1 DEF Edit, TypeOK, StoreTypes
<1>4. \A f \in Local : new[f] \in Own(h)
  BY <1>1, <1>2, LocalFields DEF FromForm, Local, LocalInv, LocalStays
<1>5. LocalStays'
  BY <1>1, <1>3, <1>4 DEF Edit, LocalInv, LocalStays, Own
<1>6. RatesAreSet'
  BY <1>1, <1>3 DEF FromForm, LocalInv, RatesAreSet, Pulled
<1>7. LocalWrites'
  <2>1. Continue(h, "handler", q) /\ "handler" \in Thread
    BY <1>1 DEF Edit, Thread
  <2>2. QED BY <2>1, ContinueLocal DEF TypeOK, LocalInv
<1>8. QED BY <1>5, <1>6, <1>7 DEF LocalInv

LEMMA WorkLocal ==
  ASSUME TypeOK, LocalInv, NEW h \in Host, NEW t \in Thread, StartSync(h, t) \/ Work(h, t)
  PROVE  LocalInv'
<1>0. /\ OpTypes /\ StoreTypes /\ LocalStays /\ LocalWrites /\ RatesAreSet
      /\ todo[h][t] \in Seq(Task) /\ snap[h][t] \in Settings /\ cfg[h] \in Settings
      /\ raw \in Settings
  BY DEF TypeOK, OpTypes, StoreTypes, LocalInv
<1>1. LocalWrites'
  <2>1. CASE TakeSnapshot(h, t)
    <3>1. Goto(h, t, "write", Only(cfg[h], Saved)) /\ "write" \in Phase
      BY <2>1 DEF TakeSnapshot, Phase
    <3>2. \A f \in Local : Only(cfg[h], Saved)[f] \in Own(h)
      BY <1>0, LocalFields DEF Only, LocalStays
    <3>3. QED BY <1>0, <3>1, <3>2, OnlyTypes, GotoLocal
  <2>2. \/ TakeSnapshot(h, t)
        \/ \E p \in Phase \ {"write"}, s \in Settings : Goto(h, t, p, s)
        \/ \E q \in Seq(Task) : Continue(h, t, q)
    <3>1. CASE PushOrGoOn(h, t) \/ Continue(h, t, todo[h][t])
      <4>1. Only(cfg[h], Pushed) \in Settings /\ "get" \in Phase \ {"write"}
        BY <1>0, OnlyTypes DEF Phase
      <4>2. QED BY <1>0, <3>1, <4>1 DEF PushOrGoOn
    <3>2. CASE GetSha(h, t) \/ StartSync(h, t) \/ Fetch(h, t)
      <4>1. {"put", "apply"} \subseteq Phase \ {"write"}
        BY DEF Phase
      <4>2. QED BY <1>0, <3>2, <4>1 DEF GetSha, StartSync, Fetch
    <3>3. CASE Put(h, t) \/ Apply(h, t) \/ StartServing(h, t)
      <4>1. <<"save">> \in Seq(Task)
        BY DEF Task
      <4>2. <<"save">> \o todo[h][t] \in Seq(Task)
        BY <1>0, <4>1
      <4>3. QED BY <1>0, <3>3, <4>2 DEF Put, Apply, StartServing
    <3>4. QED BY <3>1, <3>2, <3>3 DEF Work, WriteFile, BeginPush
  <2>3. QED BY <1>0, <2>1, <2>2, GotoLocal, ContinueLocal
<1>2. ASSUME NEW x \in Host, NEW f \in Local
      PROVE  cfg'[x][f] \in Own(x) /\ file'[x][f] \in Own(x)
  <2>1. cfg'[x][f] = cfg[x][f]
    BY <1>0, LocalFields
    DEF StartSync, Work, TakeSnapshot, WriteFile, BeginPush, GetSha, Put, Fetch, Apply,
        StartServing, StoreTypes, Override, Taken
  <2>2. \/ file'[x] \in {file[x], Nothing}
        \/ WriteFile(h, t) /\ x = h /\ file'[x] = snap[h][t]
    BY <1>0
    DEF StartSync, Work, TakeSnapshot, WriteFile, BeginPush, GetSha, Put, Fetch, Apply,
        StartServing, StoreTypes
  <2>3. QED BY <1>0, <2>1, <2>2, LocalFields DEF LocalStays, LocalWrites, WriteFile
<1>3. LocalStays'
  BY <1>2 DEF LocalStays, Own
<1>4. RatesAreSet'
  BY <1>0, LocalFields
  DEF StartSync, Work, TakeSnapshot, WriteFile, BeginPush, GetSha, Put, Fetch, Apply,
      StartServing, StoreTypes, Override, Taken, RatesAreSet
<1>5. QED BY <1>1, <1>3, <1>4 DEF LocalInv

LEMMA RestartLocal ==
  ASSUME TypeOK, LocalInv, NEW h \in Host, Restart(h)
  PROVE  LocalInv'
<1>0. OpTypes /\ StoreTypes /\ LocalStays /\ LocalWrites /\ RatesAreSet
  BY DEF TypeOK, LocalInv
<1>1. PICK s \in {Nothing, file[h]} :
        /\ file' = [file EXCEPT ![h] = s]
        /\ cfg' = [cfg EXCEPT ![h] = AfterStart(s)]
  BY DEF Restart
<1>2. s \in Settings /\ \A f \in Local : s[f] \in Own(h)
  BY <1>0, <1>1, EmptyIsAValue, LocalFields DEF StoreTypes, LocalStays
<1>3. \A f \in Local : AfterStart(s)[f] \in Own(h)
  BY <1>2, LocalFields DEF AfterStart, Override
<1>4. AfterStart(s)["fps"] # Empty /\ AfterStart(s)["interval"] # Empty
  BY <1>2, LocalFields, BoundAssumption DEF AfterStart, Override
<1>5. \A x \in Host : /\ file'[x] = IF x = h THEN s ELSE file[x]
                      /\ cfg'[x] = IF x = h THEN AfterStart(s) ELSE cfg[x]
  BY <1>0, <1>1 DEF StoreTypes
<1>6. LocalStays' /\ RatesAreSet'
  BY <1>0, <1>2, <1>3, <1>4, <1>5 DEF LocalStays, RatesAreSet, Own
<1>7. LocalWrites'
  <2> SUFFICES ASSUME NEW x \in Host, NEW u \in Thread, at'[x][u] = "write"
               PROVE  \A f \in Local : snap'[x][u][f] \in Own(x)
    BY DEF LocalWrites, Own
  <2>1. x # h
    BY <1>0 DEF Restart, OpTypes
  <2>2. at'[x] = at[x] /\ snap'[x] = snap[x]
    BY <1>0, <2>1 DEF Restart, OpTypes
  <2>3. QED BY <1>0, <2>2 DEF LocalWrites
<1>8. QED BY <1>6, <1>7 DEF LocalInv

LEMMA LocalHolds == Spec => []LocalInv
<1>1. Init => LocalInv
  <2> SUFFICES ASSUME Init PROVE LocalInv
    OBVIOUS
  <2>1. \A h \in Host :
           /\ \A f \in Local : FirstSettings(h)[f] \in Own(h)
           /\ FirstSettings(h)["fps"] \in {Default, <<h, 0>>}
           /\ FirstSettings(h)["interval"] = Default
    BY BoundAssumption
    DEF FirstSettings, BuiltIn, Nothing, Own, Local, Field, Pulled
  <2>2. LocalStays
    BY <2>1, LocalFields DEF Init, LocalStays, Only
  <2>3. LocalWrites
    BY DEF Init, LocalWrites
  <2>4. RatesAreSet
    <3> SUFFICES ASSUME NEW h \in Host
                 PROVE  cfg[h]["fps"] # Empty /\ cfg[h]["interval"] # Empty
      BY DEF RatesAreSet
    <3>1. cfg[h] = FirstSettings(h)
      BY DEF Init
    <3>2. Default # Empty /\ <<h, 0>> # Empty
      BY BoundAssumption
    <3>3. QED BY <2>1, <3>1, <3>2
  <2>5. QED BY <2>2, <2>3, <2>4 DEF LocalInv
<1>2. TypeOK /\ LocalInv /\ [Next]_vars => LocalInv'
  <2> SUFFICES ASSUME TypeOK, LocalInv, [Next]_vars PROVE LocalInv'
    OBVIOUS
  <2>1. ASSUME NEW h \in Users, User(h) PROVE LocalInv'
    BY <2>1, EditLocal, FormAssumption
  <2>2. ASSUME NEW h \in Restarting, Restart(h) PROVE LocalInv'
    BY <2>2, RestartLocal, FormAssumption
  <2>3. CASE Deliver \/ UNCHANGED vars
    BY <2>3 DEF Deliver, vars, LocalInv, LocalStays, LocalWrites, RatesAreSet, Own
  <2>4. QED BY <2>1, <2>2, <2>3, WorkLocal DEF Next
<1>3. QED BY <1>1, <1>2, TypeCorrect, PTL DEF Spec

\* A capture schedule or a token that a host uses or stores was entered there:
\* hosts push their schedules (SettingsForSync), and no host takes over another's.
THEOREM LocalSettingsStay == Spec => []LocalStays
<1>1. LocalInv => LocalStays
  BY DEF LocalInv
<1>2. QED BY <1>1, LocalHolds, PTL

\* The frame rate and the election interval are never empty: not after a torn file,
\* a form that leaves them out, or a pull from a repository that has none.  The
\* capture never falls back to the one frame per second of main.go:1007-1010.
THEOREM RatesStaySet == Spec => []RatesAreSet
<1>1. LocalInv => RatesAreSet
  BY DEF LocalInv
<1>2. QED BY <1>1, LocalHolds, PTL
=============================================================================
