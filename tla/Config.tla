------------------------------- MODULE Config -------------------------------
(***************************************************************************)
(* The configuration manager (internal/config/config.go): Load reads the   *)
(* file under the manager's lock and tells the subscribers; Watch adds one *)
(* and, the first time, starts the goroutine that looks at the time of the *)
(* file every five seconds and reloads it when that has moved on.          *)
(*                                                                         *)
(* The file is whatever its owners make of it: saved in place, in pieces,  *)
(* some of which are no valid configuration; removed; put back by a copy   *)
(* of an older time; or saved twice within what its time can tell apart.   *)
(***************************************************************************)
EXTENDS Integers, Sequences, SequencesExt

CONSTANTS
  Callers,      \* goroutines that call Load
  Subscribers,  \* and Watch
  Watcher,      \* the goroutine that Watch starts
  Nobody,       \* holder of a lock that is free
  Capacity,     \* of a subscriber's channel, ten in the code
  MaxVersion,   \* bound on what is written to the file
  MaxTime       \* bound on its times

ASSUME ConfigAssumption ==
  /\ Watcher \notin Callers /\ Nobody \notin Callers \cup {Watcher}
  /\ Capacity \in Nat \ {0} /\ MaxVersion \in Nat \ {0} /\ MaxTime \in Nat \ {0}

Loaders  == Callers \cup {Watcher}
NoConfig == 0  \* before the first Load
Versions == 1 .. MaxVersion
Updates  == [old : Versions, new : Versions]

VARIABLES
  file,         \* its contents are numbered in the order they are written
  mutex,        \* holder of m.mu
  config,       \* the version m.config was read from
  read,         \* what each loader read of the file
  pc,           \* where each loader is; its watcher if that is none
  lastModTime,
  subscribers,  \* in the order they came
  channel,
  known,        \* the version each subscriber knows of
  missed,       \* has it not been told of a change?
  done,         \* has the context of the first subscriber ended?
  steady        \* has the file been as the watcher needs it?

vars == <<file, mutex, config, read, pc, lastModTime, subscribers, channel, known,
          missed, done, steady>>
told == <<subscribers, channel, known, missed>>

Init ==
  /\ file = [exists |-> TRUE, version |-> 1, valid |-> TRUE, time |-> 1]
  /\ mutex = Nobody
  /\ config = NoConfig
  /\ read = [p \in Loaders |-> NoConfig]
  /\ pc = [p \in Loaders |-> IF p = Watcher THEN "none" ELSE "idle"]
  /\ lastModTime = 0
  /\ subscribers = <<>>
  /\ channel = [s \in Subscribers |-> <<>>]
  /\ known = [s \in Subscribers |-> NoConfig]
  /\ missed = [s \in Subscribers |-> FALSE]
  /\ done = FALSE /\ steady = TRUE

Goto(p, label) == pc' = [pc EXCEPT ![p] = label]

-----------------------------------------------------------------------------
\* The owners of the file
WriteFile ==
  /\ file.version < MaxVersion
  /\ \E valid \in BOOLEAN, time \in 1 .. MaxTime :
       /\ file' = [exists |-> TRUE, version |-> file.version + 1, valid |-> valid, time |-> time]
       /\ steady' = (steady /\ time > file.time)
  /\ UNCHANGED <<mutex, config, read, pc, lastModTime, told, done>>

RemoveFile ==
  /\ file.exists
  /\ file' = [file EXCEPT !.exists = FALSE]
  /\ UNCHANGED <<mutex, config, read, pc, lastModTime, told, done, steady>>

-----------------------------------------------------------------------------
\* Load: the lock is taken before the file is read.  Mutant: only to publish it.
Unlocked(p) == pc[p] \in {"idle", "reload"}
MayRead(p) == mutex = Nobody /\ pc[p] \in {"idle", "reload"}

Rest(p) == IF p = Watcher THEN "waiting" ELSE "idle"

ReadFile(p) ==
  /\ MayRead(p)
  /\ file.exists /\ file.valid
  /\ mutex' = p
  /\ read' = [read EXCEPT ![p] = file.version]
  /\ Goto(p, "publish")
  /\ UNCHANGED <<file, config, lastModTime, told, done, steady>>

\* Opening or reading it may fail for other reasons, too.
LoadFails(p) ==
  /\ MayRead(p)
  /\ Goto(p, Rest(p))
  /\ steady' = (steady /\ ~(p = Watcher /\ file.exists /\ file.valid))
  /\ UNCHANGED <<file, mutex, config, read, lastModTime, told, done>>

\* notifySubscribers skips a subscriber whose channel is full.
\* Mutant: the first one that is full ends the loop.
Full(s) == Len(channel[s]) = Capacity
NoneFullUpTo(s) ==
  \E n \in DOMAIN subscribers : subscribers[n] = s /\ \A m \in 1 .. n : ~Full(subscribers[m])
Notified(s) == s \in Range(subscribers) /\ ~Full(s)

Publish(p) ==
  /\ pc[p] = "publish"
  /\ config' = read[p]
  /\ mutex' = Nobody
  /\ channel' = [s \in Subscribers |->
       IF config # NoConfig /\ Notified(s)
       THEN Append(channel[s], [old |-> config, new |-> read[p]]) ELSE channel[s]]
  /\ missed' = [s \in Subscribers |->
       missed[s] \/ (s \in Range(subscribers) /\ (config = NoConfig \/ Full(s)))]
  /\ Goto(p, Rest(p))
  /\ UNCHANGED <<file, read, lastModTime, subscribers, known, done, steady>>

-----------------------------------------------------------------------------
\* m.watcher is never reset, so that there is one for the first subscriber only.
Watch(s) ==
  /\ mutex = Nobody /\ s \notin Range(subscribers)
  /\ subscribers' = Append(subscribers, s)
  /\ known' = [known EXCEPT ![s] = config]
  /\ IF pc[Watcher] = "none" THEN Goto(Watcher, "starting") ELSE UNCHANGED pc
  /\ UNCHANGED <<file, mutex, config, read, lastModTime, channel, missed, done, steady>>

Receive(s) ==
  /\ channel[s] # <<>>
  /\ known' = [known EXCEPT ![s] = Head(channel[s]).new]
  /\ channel' = [channel EXCEPT ![s] = Tail(@)]
  /\ UNCHANGED <<file, mutex, config, read, pc, lastModTime, subscribers, missed, done, steady>>

\* The first subscriber's context
Cancel ==
  /\ pc[Watcher] # "none" /\ ~done
  /\ done' = TRUE /\ steady' = FALSE
  /\ UNCHANGED <<file, mutex, config, read, pc, lastModTime, told>>

\* What is in the file when the watcher starts is taken to be loaded.
FirstStat ==
  /\ pc[Watcher] = "starting"
  /\ lastModTime' = IF file.exists THEN file.time ELSE 0
  /\ steady' = (steady /\ config = file.version)
  /\ Goto(Watcher, "waiting")
  /\ UNCHANGED <<file, mutex, config, read, told, done>>

\* A tick that finds a newer file, which it notes before it is loaded.
Stat ==
  /\ pc[Watcher] = "waiting"
  /\ file.exists /\ file.time > lastModTime
  /\ lastModTime' = file.time
  /\ Goto(Watcher, "reload")
  /\ UNCHANGED <<file, mutex, config, read, told, done, steady>>

\* One that cannot find the file goes on.  Mutant: it ends the watcher.
ForGood == Goto(Watcher, "ended")
Continue == UNCHANGED pc
StatFails ==
  /\ pc[Watcher] = "waiting" /\ ~file.exists
  /\ Continue
  /\ UNCHANGED <<file, mutex, config, read, lastModTime, told, done, steady>>

End ==
  /\ pc[Watcher] = "waiting" /\ done
  /\ Goto(Watcher, "ended")
  /\ UNCHANGED <<file, mutex, config, read, lastModTime, told, done, steady>>

Next ==
  \/ WriteFile \/ RemoveFile
  \/ \E p \in Loaders : ReadFile(p) \/ LoadFails(p) \/ Publish(p)
  \/ \E s \in Subscribers : Watch(s) \/ Receive(s)
  \/ Cancel \/ FirstStat \/ Stat \/ StatFails \/ End

\* The ticker goes on; who waits for the lock gets it (sync.RWMutex); a Load ends.
Fairness ==
  /\ WF_vars(FirstStat) /\ WF_vars(Stat)
  /\ SF_vars(ReadFile(Watcher) \/ LoadFails(Watcher))
  /\ \A p \in Loaders : WF_vars(Publish(p))

Spec == Init /\ [][Next]_vars /\ Fairness

-----------------------------------------------------------------------------
TypeOK ==
  /\ file \in [exists : BOOLEAN, version : Versions, valid : BOOLEAN, time : 1 .. MaxTime]
  /\ pc \in [Loaders -> {"none", "starting", "waiting", "idle", "reload", "publish", "ended"}]
  /\ mutex \in Loaders \cup {Nobody} /\ \A p \in Loaders : pc[p] = "publish" <=> mutex = p
  /\ read \in [Loaders -> 0 .. file.version] /\ config \in 0 .. file.version
  /\ lastModTime \in 0 .. MaxTime
  /\ subscribers \in Seq(Subscribers)
  /\ channel \in [Subscribers -> Seq(Updates)]
  /\ \A s \in Subscribers : Len(channel[s]) <= Capacity
  /\ known \in [Subscribers -> 0 .. MaxVersion] /\ missed \in [Subscribers -> BOOLEAN]
  /\ done \in BOOLEAN /\ steady \in BOOLEAN

\* Loads overlap, but no one puts back a configuration that another has replaced.
NeverBackwards == [][config' >= config]_vars

\* What a subscriber knows, followed by the updates in its channel, leads step by
\* step to the current configuration, unless its channel was full at a change or
\* it came before there was a configuration.
KeepsUp ==
  \A s \in Range(subscribers) :
    LET news == channel[s]
    IN  missed[s] \/
          /\ \A n \in DOMAIN news : news[n].old = IF n = 1 THEN known[s] ELSE news[n - 1].new
          /\ config = IF news = <<>> THEN known[s] ELSE Last(news).new

\* A file that stays is the configuration in the end, once someone watches it; as
\* long as its time grows with every change, it can be read, it had been loaded
\* when the watcher first looked, and the first subscriber stays.
CatchesUp ==
  [](steady) => <>[](subscribers # <<>> /\ file.exists /\ file.valid => config = file.version)
\* What CatchesUp rests on: a change that stays, while all is as the watcher needs it,
\* is never passed over.  The watcher has still to look at the time of the file, which
\* has moved on since it last noted it, or it is about to read the file, or it has read
\* what is there now.
ChangesNoticed ==
  /\ steady /\ pc[Watcher] \notin {"none", "starting"}
  /\ file.exists /\ file.valid /\ config # file.version
  => \/ pc[Watcher] \in {"waiting", "publish"} /\ file.time > lastModTime
     \/ pc[Watcher] = "reload"
     \/ pc[Watcher] = "publish" /\ read[Watcher] = file.version

-----------------------------------------------------------------------------
(* Why no change is passed over *)

\* The watcher stays where it belongs, and ends only with its context.
Watches ==
  /\ pc[Watcher] # "idle"
  /\ done => ~steady
  /\ pc[Watcher] = "ended" => done

\* What it has noted is no later than the time of the file.
NotAhead == steady => lastModTime <= file.time
=============================================================================
