------------------------------ MODULE BootLoader ------------------------------
(***************************************************************************)
(* The boot loader of a multicore build and the core threads of the        *)
(* program it starts.  The cores agree through a record in memory: one     *)
(* status of the master and one of each slave, which have one value for    *)
(* many purposes and are only polled.  A step reads or writes one status;  *)
(* fields that only the core itself looks at next go with it.              *)
(***************************************************************************)
EXTENDS Integers, Sequences

CONSTANTS
  CoreCnt,
  Downloads,    \* what download may return: NULL, or a program by what it does:
                \* sync, it sets up the network; main, its creates and joins
  Timely,       \* polling sees what another core writes, see Seen
  NULL

Core  == 0..CoreCnt - 1
Slave == 1..CoreCnt - 1

\* What the programs do: they create threads on slaves and join what they have
\* created.
Operations == UNION {{e.main[k] : k \in DOMAIN e.main} : e \in Downloads \ {NULL}}

Operates(op) ==
  /\ op.op \in {"create", "join"} /\ op.core \in Slave
  /\ op.op = "create" => op.thread # NULL

Creates(op, c) == op.op = "create" /\ op.core = c

JoinsOwn(main) ==
  \A k \in DOMAIN main :
    main[k].op = "join" => \E j \in 1 .. k - 1 : Creates(main[j], main[k].core)

BootAssumption ==
  /\ CoreCnt \in Nat \ {0}
  /\ \A op \in Operations : Operates(op)
  /\ \A e \in Downloads \ {NULL} :
       e.sync \in BOOLEAN /\ e.main \in Seq(Operations) /\ JoinsOwn(e.main)

VARIABLES
  pc,
  master,       \* boot_info->master: status, entrypoint
  slave,        \* boot_info->slave: status, return_val, funcpoint
  i,            \* the slave the master looks at
  todo,         \* what is left of main
  loaded,       \* history: what the last download returned
  made,         \* history: the thread of each core, as create returned 0
  joined        \* history: the last thread joined and what it returned

bootVars == <<pc, master, slave, i, todo, loaded, made, joined>>

Cleared == [status |-> "NULL", return_val |-> -1, funcpoint |-> NULL]

BootInit ==
  /\ pc = [c \in Core |-> "delay"]
  /\ master = [status |-> "RETURN", entrypoint |-> NULL]
  /\ slave = [c \in Core |-> [Cleared EXCEPT !.status = "RETURN"]]
  /\ i = 1 /\ todo = <<>> /\ loaded = NULL
  /\ made = [c \in Core |-> NULL] /\ joined = <<NULL, NULL>>

At(c, from)  == pc[c] = from
Goto(c, to)  == pc' = [pc EXCEPT ![c] = to]
SetStatus(c, status) == slave' = [slave EXCEPT ![c].status = status]

rest    == <<i, todo, loaded, made, joined>>
history == <<loaded, made, joined>>

-----------------------------------------------------------------------------
(* Before the download. *)

\* Mutant: no core waits.
Undelayed(c) == TRUE

\* The delay of a core is longer than what others need to come to theirs.
Ending == {"notify_return", "wait_null", "announce", "look_return", "leave"}
Delayed(c) == \A d \in Core : pc[d] \notin Ending

delay(c) ==
  /\ At(c, "delay") /\ Delayed(c)
  /\ Goto(c, "clear_status")
  /\ UNCHANGED <<master, slave, rest>>

\* Leftovers, by every core.
clear_status(c) ==
  /\ At(c, "clear_status")
  /\ master' = [master EXCEPT !.status = "NULL"]
  /\ Goto(c, "clear_entrypoint")
  /\ UNCHANGED <<slave, rest>>

clear_entrypoint(c) ==
  /\ At(c, "clear_entrypoint")
  /\ master' = [master EXCEPT !.entrypoint = NULL]
  /\ Goto(c, "clear_slave") /\ i' = IF c = 0 THEN 0 ELSE i
  /\ UNCHANGED <<slave, todo, history>>

clear_slave(c) ==
  /\ At(c, "clear_slave")
  /\ IF c # 0 THEN slave' = [slave EXCEPT ![c] = Cleared] /\ Goto(c, "boot") /\ UNCHANGED i
     ELSE /\ slave' = [slave EXCEPT ![i] = Cleared]
          /\ i' = i + 1
          /\ IF i = CoreCnt - 1 THEN Goto(c, "boot") ELSE UNCHANGED pc
  /\ UNCHANGED <<master, todo, history>>

\* The master writes often enough for every slave to have cleared its
\* leftovers before the last time.
boot_master ==
  /\ At(0, "boot")
  /\ master' = [master EXCEPT !.status = "BOOT"]
  /\ \/ UNCHANGED pc
     \/ /\ \A c \in Slave : pc[c] \notin {"delay", "clear_status", "clear_entrypoint"}
        /\ Goto(0, "download")
  /\ UNCHANGED <<slave, rest>>

\* It takes the bytes of a line, and the slaves have looked by then.
download ==
  /\ At(0, "download") /\ \A c \in Slave : At(c, "spin")
  /\ \E e \in Downloads : master' = [master EXCEPT !.entrypoint = e] /\ loaded' = e
  /\ Goto(0, "notify_init")
  /\ UNCHANGED <<slave, i, todo, made, joined>>

notify_init ==
  /\ At(0, "notify_init")
  /\ master' = [master EXCEPT !.status = "INIT"]
  /\ Goto(0, "wait_init") /\ i' = 1
  /\ UNCHANGED <<slave, todo, history>>

\* The master goes through the slaves until they have the status.
Each(from, awaited, to) ==
  /\ At(0, from)
  /\ \/ i < CoreCnt /\ slave[i].status \in awaited /\ i' = i + 1 /\ UNCHANGED pc
     \/ i = CoreCnt /\ i' = 1 /\ Goto(0, to)
  /\ UNCHANGED <<master, slave, todo, history>>

wait_init == Each("wait_init", {"INIT"}, "run")

\* A slave shows itself until the master has booted.
boot_slave(c) ==
  /\ At(c, "boot") /\ c # 0
  /\ SetStatus(c, "BOOT") /\ Goto(c, "look_boot")
  /\ UNCHANGED <<master, rest>>

look_boot(c) ==
  /\ At(c, "look_boot")
  /\ Goto(c, IF master.status = "BOOT" THEN "spin" ELSE "boot")
  /\ UNCHANGED <<master, slave, rest>>

spin(c) ==
  /\ At(c, "spin") /\ master.status = "INIT"
  /\ Goto(c, "ack_init")
  /\ UNCHANGED <<master, slave, rest>>

ack_init(c) ==
  /\ At(c, "ack_init")
  /\ SetStatus(c, "INIT") /\ Goto(c, "run")
  /\ UNCHANGED <<master, rest>>

-----------------------------------------------------------------------------
(* The program. *)

\* A core that polls sees a status before it is replaced: the master, that of
\* a slave that starts and of a thread that starts; a worker, that its thread
\* has been joined.
Seen(c) ==
  Timely => /\ slave[c].status = "INIT" => pc[0] \notin {"notify_init", "wait_init"}
            /\ slave[c].status = "INITDONE" /\ pc[0] = "created" => Head(todo).core # c

Reused(c) == Timely => pc[c] \notin {"exit_status", "ended", "released"}

run(c) ==
  /\ At(c, "run")
  /\ Goto(c, IF master.entrypoint = NULL THEN IF c = 0 THEN "wait_return" ELSE "announce"
             ELSE IF master.entrypoint.sync THEN "sync"
             ELSE IF c = 0 THEN "main" ELSE "worker")
  /\ IF c = 0 /\ master.entrypoint # NULL THEN todo' = master.entrypoint.main ELSE UNCHANGED todo
  /\ UNCHANGED <<master, slave, i, history>>

\* noc_sync of the master goes through all slaves until it finds them ready in
\* one round; what is left of a round that has failed changes nothing.
another_round ==
  /\ At(0, "sync") /\ i < CoreCnt /\ slave[i].status \notin {"NULL", "INITDONE"}
  /\ i' = 1
  /\ UNCHANGED <<pc, master, slave, todo, history>>

noc_sync ==
  \/ Each("sync", {"NULL", "INITDONE"}, "start")
  \/ another_round
  \/ /\ At(0, "start")
     /\ master' = [master EXCEPT !.status = "INITDONE"] /\ Goto(0, "main")
     /\ UNCHANGED <<slave, rest>>

\* noc_sync of a slave.
noc_sync_slave(c) ==
  \/ /\ At(c, "sync") /\ c # 0 /\ Seen(c)
     /\ SetStatus(c, "INITDONE") /\ Goto(c, "synced")
     /\ UNCHANGED <<master, rest>>
  \/ /\ At(c, "synced") /\ master.status = "INITDONE"
     /\ Goto(c, "worker")
     /\ UNCHANGED <<master, slave, rest>>

Available(c) == slave[c].status # "INITDONE" /\ slave[c].funcpoint = NULL

corethread_create ==
  /\ At(0, "main") /\ todo # <<>> /\ Head(todo).op = "create"
  /\ LET c == Head(todo).core
     IN  IF Available(c)
         THEN /\ Reused(c)
              /\ slave' = [slave EXCEPT ![c].funcpoint = Head(todo).thread]
              /\ Goto(0, "created") /\ UNCHANGED <<todo, made>>
         ELSE /\ todo' = Tail(todo) /\ made' = [made EXCEPT ![c] = NULL]
              /\ UNCHANGED <<pc, slave>>
  /\ UNCHANGED <<master, i, loaded, joined>>

created ==
  /\ At(0, "created")
  /\ LET c == Head(todo).core
     IN  slave[c].status = "INITDONE" /\ made' = [made EXCEPT ![c] = Head(todo).thread]
  /\ todo' = Tail(todo) /\ Goto(0, "main")
  /\ UNCHANGED <<master, slave, i, loaded, joined>>

corethread_join ==
  /\ At(0, "main") /\ todo # <<>> /\ Head(todo).op = "join"
  /\ LET c == Head(todo).core
     IN  /\ slave[c].status = "RETURN"
         /\ joined' = <<made[c], slave[c].return_val>>
         /\ slave' = [slave EXCEPT ![c].funcpoint = NULL]
  /\ todo' = Tail(todo)
  /\ UNCHANGED <<pc, master, i, loaded, made>>

main_returns ==
  /\ At(0, "main") /\ todo = <<>>
  /\ Goto(0, "returned")
  /\ UNCHANGED <<master, slave, rest>>

\* A slave runs threads until the program of the master has returned.
corethread_worker(c) ==
  /\ \/ At(c, "worker") /\ Seen(c) /\ SetStatus(c, "RETURN") /\ Goto(c, "poll_master")
     \/ /\ At(c, "poll_master") /\ UNCHANGED slave
        /\ Goto(c, IF master.status = "RETURN" THEN "returned" ELSE "poll_funcpoint")
     \/ /\ At(c, "poll_funcpoint") /\ UNCHANGED slave
        /\ Goto(c, IF slave[c].funcpoint = NULL THEN "poll_master" ELSE "begin")
     \/ At(c, "begin") /\ slave' = [slave EXCEPT ![c].return_val = -1] /\ Goto(c, "respond")
     \/ At(c, "respond") /\ SetStatus(c, "INITDONE") /\ Goto(c, "exit")
     \/ At(c, "ended") /\ SetStatus(c, "RETURN") /\ Goto(c, "released")
     \/ At(c, "released") /\ slave[c].funcpoint = NULL /\ Goto(c, "poll_master") /\ UNCHANGED slave
  /\ UNCHANGED <<master, rest>>

\* A thread ends with the call of corethread_exit; its result is its name.
corethread_exit(c) ==
  /\ \/ /\ At(c, "exit")
        /\ slave' = [slave EXCEPT ![c].return_val = slave[c].funcpoint]
        /\ Goto(c, "exit_status")
     \/ At(c, "exit_status") /\ Seen(c) /\ SetStatus(c, "RETURN") /\ Goto(c, "ended")
  /\ UNCHANGED <<master, rest>>

-----------------------------------------------------------------------------
(* After the program. *)

\* main and exit return 0.
returned(c) ==
  /\ At(c, "returned")
  /\ slave' = [slave EXCEPT ![c].return_val = 0]
  /\ Goto(c, IF c = 0 THEN "wait_return" ELSE "announce") /\ i' = IF c = 0 THEN 1 ELSE i
  /\ UNCHANGED <<master, todo, history>>

\* Slaves that are there have returned: the master looks once whether a slave
\* is, and then waits for nothing but its return.
wait_return ==
  \/ Each("wait_return", {"NULL"}, "notify_return")
  \/ /\ At(0, "wait_return") /\ i < CoreCnt /\ slave[i].status # "NULL"
     /\ Goto(0, "wait_slave")
     /\ UNCHANGED <<master, slave, rest>>
  \/ /\ At(0, "wait_slave") /\ slave[i].status = "RETURN"
     /\ Goto(0, "wait_return") /\ i' = i + 1
     /\ UNCHANGED <<master, slave, todo, history>>

notify_return ==
  /\ At(0, "notify_return")
  /\ master' = [master EXCEPT !.status = "RETURN"] /\ Goto(0, "wait_null")
  /\ UNCHANGED <<slave, rest>>

wait_null == Each("wait_null", {"NULL", "BOOT", "INIT", "INITDONE"}, "delay")

announce(c) ==
  /\ At(c, "announce") /\ Seen(c)
  /\ SetStatus(c, "RETURN") /\ Goto(c, "look_return")
  /\ UNCHANGED <<master, rest>>

look_return(c) ==
  /\ At(c, "look_return")
  /\ Goto(c, IF master.status = "RETURN" THEN "leave" ELSE "announce")
  /\ UNCHANGED <<master, slave, rest>>

leave(c) ==
  /\ At(c, "leave")
  /\ SetStatus(c, "NULL") /\ Goto(c, "delay")
  /\ UNCHANGED <<master, rest>>

-----------------------------------------------------------------------------
MasterStep ==
  \/ boot_master \/ download \/ notify_init \/ wait_init
  \/ noc_sync \/ corethread_create \/ created \/ corethread_join \/ main_returns
  \/ wait_return \/ notify_return \/ wait_null

SlaveStep(c) ==
  \/ boot_slave(c) \/ look_boot(c) \/ spin(c) \/ ack_init(c)
  \/ noc_sync_slave(c) \/ corethread_worker(c) \/ corethread_exit(c)
  \/ announce(c) \/ look_return(c) \/ leave(c)

CoreStep(c) ==
  \/ delay(c) \/ clear_status(c) \/ clear_entrypoint(c) \/ clear_slave(c)
  \/ run(c) \/ returned(c)
  \/ c = 0 /\ MasterStep
  \/ c # 0 /\ SlaveStep(c)

BootNext == \E c \in Core : CoreStep(c)

LastBoot == boot_master /\ pc'[0] = "download"

\* Every core runs, and the last of the writes of BOOT comes.
BootFairness ==
  /\ \A c \in Core : WF_bootVars(CoreStep(c))
  /\ SF_bootVars(LastBoot)

BootSpec == BootInit /\ [][BootNext]_bootVars /\ BootFairness

-----------------------------------------------------------------------------
(* Properties. *)

Booting == {"delay", "clear_status", "clear_entrypoint", "clear_slave", "boot", "download", "notify_init"}
Before  == Booting \cup {"look_boot", "spin", "leave"}

\* A core calls the program that was downloaded last, or none if the download
\* failed; none runs it while the master is busy with the next download; and
\* a thread that is joined is the one that was created, with its result.
OneProgram ==
  /\ \A c \in Core : pc[c] = "run" => master.entrypoint = loaded
  /\ pc[0] \in Booting => \A c \in Slave : pc[c] \in Before
  /\ joined[1] # NULL => joined[2] = joined[1]

\* After every program and every failed download comes the next download.
LoopsBack == []<>(pc[0] = "download")

Boots == []OneProgram /\ LoopsBack

=============================================================================
