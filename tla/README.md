# TLA+ verification of the raspberry-pi3-mini-os kernel

The repository is a tutorial kernel for the Raspberry Pi 3. Directories `1.hello_world` to
`D.sched_interface` are earlier stages of the same program; `src/E.file_system` is the last and complete
one, and everything here is about it (paths below are relative to `src/E.file_system/src`). The kernel
runs on one core. Concurrency comes from the timer interrupt, which may preempt every task that is not a
server, and from calls of `schedule()`.

## 1. Inventory

| Component | State it keeps | Operations | Interacts with | Hard behaviour | What makes it correct |
|---|---|---|---|---|---|
| Process scheduler (`proc_manager/sched.c`, `timer.c`, `irq.c`, set up in `kernel/kernel.c`) | three doubly linked run queues (servers, extra servers, applications), one cursor per level, `service_index`, `current`, `prev`, counters, `preempt_count`s, the two pages `prev_real`/`next_real` | `schedule`, `timer_tick`, `_schedule`, `round_robin`, `switch_to`, `schedule_tail` | everything that creates, exits, waits | ticks in every phase; cursors over lists that others change; registers saved one switch late | queues hold exactly the live tasks; the CPU goes round them; no nested `_schedule`; no lost registers |
| Creation (`app/fork.c`, `thread/thread_create.c`, `app/run.c`) | pages, `thread_id_table`, thread chains | `copy_process`, `_thread_create` | scheduler, page allocator | waits for `mm_lock` in the middle; failure path leaves preemption off | insertion never loses a task |
| Exit and join (`thread/thread_exit.c`, `thread_join.c`) | task states | `_thread_exit`, `_thread_join` | mailbox, scheduler | retries on a full mailbox; tick between posting and EXITED | every exit is reaped; a joiner returns |
| Process manager (`pm_deamon.c`) | `pm_mail`, `index_pop` | take a letter, unlink and free a process or a thread | all of the above | letters of dead processes, chains | nobody runs while it unlinks |
| Message passing (`ipc/ipc.c`, the three daemons, callers in `kernel/sys.c`) | three arrays of 64 letters, push and pop indices | `send_msg`, daemon loops, waiting on the answer byte | every client of a manager | preemption between the statements of `send_msg`; refused letters | a bounded FIFO queue; every waiter returns |
| Mutex (`thread/thread_mutex_*.c`, `device/utils.S`) | `__lock`, `__owner`, the exclusive monitor | `try_lock`, `unlock`, lock, unlock | page allocator, user threads | exceptions inside exclusive pairs | mutual exclusion, the lock is given back |
| Page allocator (`memory_manager/mm.c`) | `mem_map` | `get_free_page`, `free_page` | every component | frees without the lock during a search | no page twice, no page lost |
| Address spaces (`memory_manager/mm.c`) | page tables, `kernel_pages`, `user_pages` | `map_page`, `map_table`, `copy_virt_memory`, `do_mem_abort` | creation, exceptions | unbounded arrays, unchecked allocation failure | one page per address, all pages listed |
| File streams (`app/f*.c`, `file_system/fs_deamon.c`) | buffer, pointer, cluster counter, read/write lock | open, read, write, seek, flush, close | mailbox, FAT | buffer crossings, sizes | a stream behaves like a file |
| FAT (`file_system/fat_16.c`, `fat_32.c`) | cluster chains, directory records | follow chains, read and write clusters | card drivers | chain ends, 12/16/32-bit entries | the chain of a file is followed to its end |
| Names and places (`file_system/fs.c`, `fat.c`, `app/cd.c`, `app/fopen.c`, the shell) | pages of records, `symbolic_fs_array`, `sd_p`, `file_dir`, `kdirectory`, `cd_rem`, `current_page` | `build_kernel_directory`, `_search_file`, `cd`, `cd_root`, `find_folder`, `user_dir`, the look-up of `fopen` | `fs_daemon` opens and closes files between the steps of a `cd` | one static path for a recursion; five variables that say where the shell is; comparisons that stop early | path, partition, page and listing are those of one place; `fopen` finds what `ls` shows |
| Card drivers (`device/SDCard.c`, `device/sd.c`, `app/mount.c`) | `sdCard`, `sd_scr`, `sd_rca`, `sd_err`, the registers of the controller | `sdInitCard`, `sdTransferBlocks`, `sd_readblock`, `mount` | called by the shell and by `fs_daemon`; two drivers, one controller | timeouts, damaged answers, a card that is pulled out, failed calls that leave state behind, no lock | a successful call did what it says; a failed one leaves nothing that `mount` does not repair; every wait ends |
| Component manager (`compt_manager/*.c`) | component table (64), symbol table (128) | insert, remove, swap, execute | mailbox, scheduler, FAT | replacing a service that is in use | every symbol belongs to a loaded component |
| Serial port, pins, boot, printf, vectors | hardware registers | | | | not state machines of their own |

The hazards of this code, each with its line and the properties aimed at it, are the list `hazards` of
`PROJECT.json`.

## 2. Modules

| Module | Models | Role |
|---|---|---|
| `Sched` | scheduler, creation, exit, join, process manager | the core: one action per step between which a tick can fire |
| `RoundRobin` | - | abstract: one cyclic list of tasks and an owner |
| `SchedRoundRobin` | - | the refinement mapping from `Sched` to `RoundRobin` |
| `SchedTurns` | - | the refined scheduler with a history of turns, for bounded waiting; what `MCSched` checks in `sched_threads` |
| `Mailbox` | `send_msg` statement by statement, daemon loops, callers | detailed mailbox |
| `LetterBox` | - | abstract: a bounded FIFO queue |
| `Mutex` | `try_lock`, `unlock` (instructions), lock, unlock | detailed lock |
| `PageAllocator` (extends `Mutex`) | `get_free_page`, `free_page` entry by entry | composed with the lock it uses |
| `PagePool` | - | abstract: runs of pages are taken at once |
| `AddressSpace` | `map_page`, `map_table`, `copy_virt_memory`, `do_mem_abort` of `mm.c`, `move_to_user_mode`, the creation and the end of tasks as far as memory goes | page tables, lists, and what programs see |
| `AddressMap` | - | abstract: separate memories, shared by threads |
| `Components` | `compt.c`, `execom.c`, `lscom.c`, the letters of `compt_daemon.c` | component and symbol tables, code pages, links, pins |
| `ComponentRegistry` | - | abstract: which file answers to a name |
| `FileStream` | `fopen.c`, `fread.c`, `fwrite.c`, `fseek.c`, `ftell.c`, `fclose.c`, `fflush.c`, the buffer letters of `fs_deamon.c`, cluster chains and `readbuf`/`writebuf`/`writedir` of `fat_32.c` and `fat_16.c` | one stream, the FAT, the clusters and the directory |
| `ByteStream` | - | abstract: bytes and a position, and what of them survives a power failure |
| `SDCard` | `sd.c`, the part of `SDCard.c` that is called, `mount.c`; the controller and the card as far as the drivers look at them | drivers, controller and card, with what may go wrong |
| `BlockDevice` | - | abstract: blocks, and calls that read or write them |
| `Folders` | `fs.c`, `fat_getpartition`, `cd.c`, the look-up of `fopen.c`, `strcmp` | the tree of names and the shell's place |
| `SchedProofs` | - | theorems about `Sched`, its step to `RoundRobin`, and `SchedTurns` |
| `PageProofs` | - | theorems about `Mutex` and `PageAllocator` |
| `MailboxProofs`, `ComponentProofs`, `StreamProofs`, `SpaceProofs`, `FolderProofs`, `CardProofs` | - | theorems about `Mailbox`, `Components`, `FileStream`, `AddressSpace`, `Folders`, `SDCard` |
| `CardInvariant` | - | the invariants of `SDCard` that `CardProofs` proves: plans, phases, stages |
| `MCSched`, `MCMailbox`, `MCAddressSpace`, `MCComponents`, `MCFileStream`, `MCSDCard`, `MCFolders` | - | symmetry for TLC; the addresses, object files, records, cards and disks of the runs |

### How `Sched` corresponds to the code

A pcb is named by the page it lives in. The daemons, the shell and the three list heads are permanent; an
application or thread occupies one element of `Slots`, which stands for the page of its `pcb_struct`
and that of its `task_struct` (they are allocated and freed together). Freed pages keep their contents,
as in the code, and are zeroed only when they are handed out again.

* `phase` says where the CPU is in `_schedule`: `run` (in the code of `current`), `scan` and `rr` (the loop
  and `round_robin`, one list element per step), `switch`, `resume` (up to `preempt_enable` or
  `schedule_tail`). A tick may fire in each of them; `timer_tick` ignores it while the server level is
  being served.
* `ctx[t]` abstracts the registers: `own` when `t`'s pcb holds them, `behind` while they are only in the
  page `prev_real` (they are copied to the pcb at the *next* switch, `sched.c:183`), `foreign` if they
  were copied into a page that has been given to another task.
* `pc[t]` is the progress of `t`'s own code: inside a creation (`fork`, `thread`), retrying its exit (`exit`),
  before one of the statements of `send_msg` (`type`, `from`, `load`, `store`, `wrap`),
  between `send_msg` and EXITED (`posted`), joining, or spinning in `error()` (`stuck`).
* `pm_mail` is the array of `mail_size` slots, with `pm_index_push` and `index_pop`; of a slot the model keeps whether
  `letter_type` is set, and `from`. `send_msg` is one action per statement (`SlotFree` to `Wrap`), each of which reads
  `pm_index_push` again, and the increment is a load (`reg`) and a store, so that a tick may fall between any two.
  `pm_tmp` and `pm_mode` are the daemon's `tmp_pcb` and branch. The daemon frees one pcb per step.
* `torn` is a history variable. It becomes TRUE when a sender finds a slot free that another has found free and not yet
  marked, when one comes upon an index that another has advanced behind the array (`BehindArray`), and when the daemon takes a
  letter that is not complete, with the `from` of the slot's last letter or none (`TakeLetter`). The daemon then unlinks
  a task that lives or was freed before, and nothing can be said of the queues: `RunQueues`, `PreemptBalanced`,
  `ContextSaved`, `CyclicOrder`, `OneTurnEach`, `NoStarvation`, `LettersServed` and `JoinReturns` are about what happens
  until then. `mail_fifo` shows the tick that does it. With `FollowTorn = TRUE` the model goes on from there, except for what
  lies behind the array (the sender is `stuck`) and a letter without a sender (`pm_mode` is `lost`: the daemon reads a pcb
  at address 0); `TypeOK`, `CursorsParked`, `LevelsSeparate`, `CurrentAtCursor` and `ReapUninterrupted` are
  proved for that model too.
* `leaks[t]` counts the creations of `t` that found no memory. They return with preemption disabled
  (`fork.c:41`, `thread_create.c:54`), for ever.
* A write through a NULL `nextp` (`pm_deamon.c:39`) touches no modelled state.
* A thread that waits for `mm_lock` inside a creation calls `schedule()`: `Yield` with `pc` in
  {`fork`, `thread`}.
* The default branch of `_thread_join` executes `svc` at EL1, for which the vector table has the invalid
  handler; `irq.c:38-48` ends the joiner with `_thread_exit`.

Left out: register contents, page tables, GPIO pins that an exiting task gives back, priorities (never
read), `thread_id_table` (a thread is joined only by its creator, which knows its page; the table is
never cleared, see the hazards). Only main threads create threads, so `main_thread` is `current` at a
creation. `exit_process` and the condition variables are called by nothing.

### How `Mailbox` corresponds to the code

One action per statement of `send_msg`, with the increment of the index split in load and store, because
a tick can fall between any two. `box`, fixed at the start, tells the mailbox and with it what the callers do: an exiting
thread retries (`pm`), a file system call ignores the refusal and waits for its answer byte (`fs`), a
component call does not wait (`compt`). The daemon looks at `letter_type`, works (`serving`), answers,
clears the letter and advances. A letter is identified by the request it carries. A client that
finds the push index behind the array (two senders advanced it) is not followed further: what lies
behind the three arrays depends on the link order.

`torn` records the two ways in which a tick breaks a `send_msg`: another caller takes a step of `send_msg` while one is in the
middle of it, or the daemon takes up a letter that is not complete. What is said of the queue
(`BoundedQueue`, `FullMeansFull`) is about what happens until then; ticks in `send_msg` that do neither are harmless, and the
theorems cover them. With `Interruptible = FALSE` only runs without ticks in `send_msg` are considered, as in `mail`, where the
liveness properties need them to be absent for good.

### How `Mutex` and `PageAllocator` correspond to the code

`reserved` is the exclusive monitor. Between `ldaxr`/`ldxr` and the store only an exception can take the
CPU away, and its `eret` clears the monitor, so the store fails. When the store of `unlock` fails, the code
runs `bl schedule` and jumps back with a clobbered lock address and return address (`utils.S:56`): the
task is `lost`.
`PageAllocator` adds `mem_map`, the loop variables of `get_free_page` (per task, they are locals) and the
frees, which take no lock, each entry one step. `Entries` reaches behind the array because the test
`mem_map[i+j] != 0` does; in the linked image these words are static zeros, so they look like free pages
(`pre_num`, `flag` and `index` of `mm.c`). An `mm_info` is `<<start, size>>`; a run is given back as it was
handed out.

### How `AddressSpace` corresponds to the code

A page is a function from words to what they hold: the number of a page (an entry of a table) or data. `mm[t]`
is the `mm_struct` in the `task_struct` of `t`, `space[t]` tells whose `mm` its pcb points to: its own, or that of
the main thread (`thread_create.c:83`). `Active` is what `switch_to` hands to `set_pgd`.

* `map_page` is one step: nobody else looks at the tables of a task while it or its creator maps a page. The page
  comes first, then the tables that are missing, top down; `PageAllocator` says how a page is found.
* `do_mem_abort` maps into the `mm` of the task, not into the one its pcb points to. A fault of a thread is
  therefore answered with a page that it cannot see, and happens again (each time a page is used up): the thread's list then
  has the address twice. `ListedOnce` and `Listed` say what such a list still is: every page on it is its own, and the
  page at an address is the one that was listed last.
* A copy takes one step per page, because each waits for `mm_lock`: threads of the copied process and all other tasks
  go on. `Copied` ends it when the list is through or no page is free; both callers ignore the result.
  In `AddressMap` a page may be copied more than once between `Create` and `Begin` (`copied`), because the list of a thread may
  name an address twice.
* `_thread_create` copies as `fork` does, into tables that the thread never uses.
* A thread that forks copies the pages of its own list, reading them at their addresses in the tables of its main
  thread. If nothing is there, the access faults in the kernel and the thread ends (`irq.c:38-48`).
* Nothing of an address space is given back when a task ends, although the daemon says `free used memory`.

Left out: a page table at address 0, which is what `map_table` makes when no page is left for it, and lists with more than
`MaxUserPages` pages (`CanMap`); register contents; `kservice_allocate_upage`, which nothing calls (it maps
address 0 again while the old translation is still cached).

### How `Components` corresponds to the code

An object file is what the manager reads in it (`About`): ELF or not, the name its `init_compt` passes to
`reg_compt`, its operations with their parameters, the operations of others it calls, the pin it asks for.
A page of code is named by the file loaded into it; an address of an operation or of `exit_compt` is its
page. `ksym_name` and `marked` are one array in the code: unregistering clears the first byte (what
`rmcom`, `swap`, `execom`, relocation and `lscom` look at), while registering and unregistering compare from
byte 9 on. `sym`, `file` and `rm` keep what they had when an entry is given up, as in the code.

* `job` is the letter being handled. Its stages end where the daemon allocates a page and may therefore
  wait; `Request` (the code of a component asks for a pin; applications cannot, because entry 36 of the table of
  system calls is beyond `__NR_syscalls`) can come in between.
* `Searched`: relocation and `lscom` stop at the first unused symbol, `Exec`, `Remove` and `StartSwap` do not.
  After a removal the components behind the hole are thus neither listed nor linked with.
* `SwapIn`: each operation is redirected before its parameters are compared. Then the pointer into the old table moves 4 bytes
  too far (`compt.c:262`, `compt.c:269`), and the bound of the loop is read again where it points. With one
  operation that is behind the table and the comparison decides. With several, the loop may end there (the padding of the next name
  is read as a bound of 0), meet a difference that is none, or come to another operation, as the sizes of the parameters and the names
  of the two files have it, so that the model lets it end after any operation it has compared: `Accepted(k)`
  or `Refused(k)` with the first `k` redirected. `left[s]` is a history variable: the operations of a symbol that an
  accepted swap did not redirect, whose page `ExitOld` frees; `Live` are the others. `RefuseSwap`: another number of operations, or
  a file that registers a name.
* `ExitOld`: a swapped-in component unregisters NULL, which removes nothing. `Remove` therefore refuses it.
* A scheduler is not in `ksym` (`sched_sym`), so it is replaced by inserting another one; `swap` and `rmcom`
  never find it.
* `Claim` records a pin for `current_file`, the component inserted or swapped last, and nothing clears it.

Left out: clearing pins, the use/used lists (only `lscom` reads them), pages of operation tables, files
with missing functions (an `exit_compt` at offset 0, an operation that is the first function), running out
of pages (a load then waits), the writes of a misaligned comparison into the names of later operations, what runs in a
page that was freed (calls of operations in `left` and through links to a removed component), and a pin that is asked
for before the first insertion (`current_file` is NULL then). Names are compared as a whole.

`SymbolsLoaded` needs two things of what users ask for: no scheduler file is swapped in for a driver, and
no swap file that calls other components replaces one that was swapped in itself. Otherwise the code page
of the old component is freed while its operations stay in the table. `SwapFiles` of the run is chosen
accordingly.

### How `FileStream` corresponds to the code

One program uses one stream. It waits whenever the daemon works for it, so that the two take turns; the
letters themselves are `Mailbox`. `base` is the buffer of one cluster, `ptr` the offset of `_ptr` in it, `cnt` and
`fsize` are `_cnt` and `_fsize`. `disk[c]` is cluster `c` of the card and `disk[0]` the first block of the card,
which is where a write goes whose block number is 0; the card has a cluster of another file, too.

* `Chain` follows the FAT from the first cluster of the file; `List` is what `fat32_readbuf` makes of it at
  `fopen`. The list is a zeroed page, so it goes on with 0, which is a block number like any other.
* `fread` and `fwrite` copy what fits. If a rest remains (`Start`), the daemon loads the next cluster over the
  buffer (`LoadBuffer`) and the rest is copied (`FinishRead`, `FinishWrite`), both from or to the *start*
  of the program's array.
* Saving is only done by `fclose` and `fflush`, and only for the current cluster: whole blocks up to the position
  (`Saved`). Both set the size of the file to the position and close the stream; `fflush` leaves the
  earlier clusters out of the size. The data is written first (`WriteBack`), the directory afterwards
  (`WriteDir`), and the power may fail between the two (`Restart`, which reads the directory from the card).
* The directory is written by handing its first block of memory to `fat32_writebuf`, whatever block the record is in.
  It goes to the start of the cluster with the record (`fclose`), or of cluster `size / 4096` (`fflush`).
  `dir[b]` says which block of memory is on the card as block `b`. The runs have the record in the
  first block, the only place for which closing a file is right; with `Entries = {2}` TLC finds that
  `OwnBlocks` is violated.
* At the end of a file `fread` sets the pointer to `(int)_base + ...` (`fread.c:83`) when it has just loaded a cluster: the
  kernel's address without its upper half. `cut` says that the pointer is such a one, and `ptr` is what its
  lower half says. `ftell`, `fclose` and `fflush` use only that half and are right; so is a seek from the start, which makes the pointer whole
  again. `fread` and `fwrite` compare all of it: the end of the buffer is then always far away, and they copy to or from the low
  address, which belongs to the program and where it has no page. The abort is the kernel's own and ends in `err_hang`
  (`Astray`: nothing happens any more until the power fails; a program that itself uses the low address would have a page there).
  Records that are not aligned to blocks may leave the pointer before the buffer (`ptr < 0`); that is followed up to one block.
* `fseek` moves only within the cluster that is loaded. `ret` is what a call returns.
* `written` is no variable of the code: it says up to where the buffer holds unsaved bytes.

`Careless` lists what a stream does not support and a careful program does not do: cross into the next
cluster with unsaved bytes (they are lost), append behind the last cluster, read behind the end (the
position moves back), seek into another cluster or relative to anything but the start, seek back over
unsaved bytes (closing there cuts the file), and flush in any but the first cluster or at its end. With `Careless = {}` the stream
implements `ByteStream`; the records are aligned to the buffer, as those of `testcode/rw_file` are, because a record across
the buffer's end is not put together correctly. With `Careless = {"append cluster"}` TLC finds `OwnBlocks` violated: the daemon
finds a 0 behind the chain and the buffer is written over block 0 of the card.

Left out: finding the name (`Folders`), loading whole files (`fat32_readfile`), lists of more than the
512 clusters a page has room for, a second `fopen` (it returns NULL and keeps a page), device errors, several threads on one
stream with its read/write lock (see the hazards), `sdTransferBlocks` with 0 blocks (taken to write nothing; what it does to the card is in `SDCard`).

### How `SDCard` corresponds to the code

A call is the list of steps that are still to be done (`todo`), made from the straight-line code of the drivers by
`ReadBlocks`, `WriteBlocks`, `Attempt`, `NewCard` and so on; one step is one access to the controller, so that the
card, and with `"share"` the other caller, may act between any two. A command is three steps, as in `sdSendCommandP` and
`sd_cmd`: wait for CMD_INHIBIT, clear the interrupts and write ARG1; write CMDTM; wait for CMD_DONE.

* `host` holds the registers: the command under way, ARG1, BLKCNT, RESP0, the transfer, one block of the data port.
  `irq` is EMMC_INTERRUPT. `driver` is what both drivers remember: `type`, `rca`, `ocr` of `sdCard`, the two flags
  of `sd_scr` that `sd_readblock` looks at, `sd_err`.
* `Waited` is `sdWaitForInterrupt` and `sd_int`, which agree. A wait runs out of time only if the card takes too
  long (`hung`) or has nothing to say.
* `CommandFails`, `Tolerated`: which results end a call, and which the code passes over: `sd_cmd` leaves `sd_err` to
  its caller, APP_CMD without an address is not looked at, ACMD41 may time out, a card that does not answer
  SEND_IF_COND is taken for an old one.
* `FailCall` is the loop of `mount`; the call of `kernel_main` tries once.
* `finish`: `ccs` is computed from `rca`, which is 0 at that place, so it is never set; then 1 is added to `sd_scr[0]`,
  which sets the flag on every card.
* The card and the controller are external: in which state a card takes which command, what it answers, when a block moves.
  A fault damages one answer (before or after the card took the command), loses data, keeps the card busy, hangs it,
  or pulls it out.

`Careless`: `"share"` lets calls overlap, as the code does; `"read half ready"` reads after an initialisation that failed;
`"small card"` reads small cards with `sd_readblock` and writes them when they were taken for TYPE_1. With each of the
three TLC finds `ReadsRight` or `Device` violated.

Left out: `sdTransferBlocks` for reading, `sd_init`, `sdClearBlocks` and the FAT functions of `SDCard.c` (nothing in the
image calls them), CID and CSD, bus width and clock values.

### How `Folders` corresponds to the code

`Disk` gives the records of every folder; a record is its name, its kind and its first cluster. A name stands for its
first eight characters. `reading` is the recursion of `_search_file`: for each call the folder, the record it is at, the
page it fills and `back_mark`. `pages[p]` is a page of `struct file`. An entry of `symbolic` has its path, the record
it points to, `open`, and (a history variable) the partition its buffer was loaded through.

* `EndVolume`: the name of a partition is that of its first record. `EndBuild` lists the partitions without gaps,
  `ListRoot` (`cd_root`) with them.
* `cd` is cut where the shell can be preempted and `fs_daemon` looks at the same variables: after `user_dir`, after
  the path, before `cd_rem`. `FindFolder` begins in the root folder of the partition, wherever the shell is.
* `Lookup`: `fopen` compares with `strcmp`, which ends at the first blank of the path that is looked for; a name of
  eight characters is followed by a character that was never written, so such a file may or may not be found.
* A file without a cluster is listed but has no entry; `First` therefore differs between `ls` and `fopen`.

`Careless`: `"cd in folder"` changes to a folder while not in the root folder of a partition (the path grows, the place
does not: `Located`), `"leave open"` leaves the partition of an open file, `"open during cd"` opens a file while a `cd`
changes the partition (both: the file is read through another partition, `OpensListed`).

* `Only` picks the elements of a list that are in a set, as the loops of `build_kernel_directory` and `_search_file`
  do that copy what is to be seen. It stands for `SelectSeq`, which the prover does not know.

Left out: extensions of names, paths of more than 32 characters, folders of more than 20 or 56 records, a fourth
partition followed by memory that is not 0 (`fat.c:42`), reading the folders from the card.

## 3. Runs

All run in under five minutes with two workers. `Slots`, `Clients` and `Tasks` are interchangeable, and
symmetry is used where no liveness property is checked.

| Run | Shows | Bounds and why they are enough |
|---|---|---|
| `sched_threads` | queue shape, parked cursors, separate levels, reaping uninterrupted, preemption counts balanced, no nested `_schedule`, saved registers reach their owner and no freed page; `Sched` implements `RoundRobin`; nobody gets two turns while another ready application waits | 2 pages: two applications, or a process and its thread, exiting in either order while pages are reused; creations that fail (each leaks one count); a mailbox of two slots, so that two letters queue up, the thread's may be handled after the reaping of its process freed it, and the indices wrap |
| `sched_live` | no starvation, every posted exit is reaped, unless a task with leaked preemption keeps the CPU or a `send_msg` is torn | 2 pages as before, one creation that fails, a mailbox of one slot, so that exits find it full and try again |
| `mail` | mailbox is a bounded FIFO; refused only when full; accepted letters are handled once, in order, and answered; retrying exits succeed | three callers, 2 slots: often full, indices wrap; two letters each for `fs` and `compt`; no tick in `send_msg` |
| `pages` | no double allocation, `mem_map` right, implements `PagePool`, searches end; the mutex excludes | 3 pages, runs of 1 and 2, two tasks that allocate and free, two exceptions in exclusive pairs, one of them in an unlock |
| `space` | the tables of all tasks are disjoint trees of allocated pages; lists name every table and mapped page; programs have separate memories that only threads share (implements `AddressMap`) | three tasks: a process, its thread and the copy that either makes; 13 pages, so that they run out in a load, a fault and a copy, and a thread's copy fails; up to three pages on a list, so that one address is there twice; two levels of tables instead of four, with an address that needs a new last table in an existing first one; programs of one page |
| `components` | tables agree, what can be called is loaded and linked, names behave as a registry, pins are recorded once | eight files, of one and two operations, two symbols, two entries of `cfile`, three pages: both tables run full, entries and pages are reused, refused files leave entries behind |
| `stream` | what a careful program reads is what the file holds at its position; what it writes lands there and nowhere else; after a power failure the file is what was closed last or saved of it; implements `ByteStream` | three clusters of two blocks of 4 bytes, two different chains of two clusters, a directory of two clusters, transfers of two bytes as one object or two: positions inside and at the ends of blocks and clusters, files that end in a block, at the end of a cluster or of the chain, or become empty; reads at the end of a file that ends with a cluster, which cut the pointer |
| `card` | the drivers implement `BlockDevice`; calls fail only if something went wrong since the last reset; all calls return | a card of four blocks of two bytes, so that block and byte addresses differ; large with and without SET_BLOCK_COUNT, small, old, and without a fitting voltage; reads of one and two blocks, writes of two, one and none; one fault at any point, `mount` with two attempts and one repetition of ACMD41, after the attempt at boot |
| `card_shared`* | a read interrupted by the daemon returns another block as if it were right | two reads, no faults |
| `folders` | path, partition, page and listing are one place; `fopen` finds what is listed and nothing else, through its own partition | four partitions (one unknown, one with a label only), folders two deep, the same names in several of them, names of eight characters, deleted records, a file without a cluster |
| `sched_join`* | a thread preempted between its letter and EXITED is reaped as JOINABLE; its joiner waits for ever | |
| `mail_fifo`* | a half-written letter is handled (in the same window "Mailbox is Full" appears with free slots) | `send_msg` interrupted by ticks |

\* These three state what the code, its comments or its messages say and are violated: see `findings`.

Two bounds leave something out on purpose. (1) With four pcbs of which one is a main thread that exits while
letters of its threads are queued, the daemon frees the chain and later handles letters of pcbs that may
have been reused; the runs with threads use one thread per process. With two, reaping the first leaves the second's `thread_p`
naming a freed page, and the link of a run queue is overwritten in its place (`pm_deamon.c:65`). (2) `MailSize` and `Size` are 1 or 2
instead of 64. The slices of `round_robin` and the shell are 0 instead of 1 and 10 (`AppSlice`, `ExtraSlice`): a counter decides only which tick ends
a slice, and since any tick may be the first after it began, 0 and 1 allow the same switches; the first slice of a new thread is two ticks
as in the code. `CounterDebt = 0` stops following a counter at zero, where the code lets it go on below. `MaxFail` bounds the failed
creations of the tasks that exist. `FollowTorn = FALSE` ends a run where a `send_msg` is torn.

`CHECK_DEADLOCK FALSE` is used where the modelled clients finish their work (`mail*`, `pages`), where all
pages are used up (`components`, `space`), in `card_shared`, whose callers may both stop, and in
`sched_*`: these runs end where a `send_msg` is torn, and a task that has leaked preemption and waits for memory spins for ever, and the
ticks it gets change nothing.

### Fairness

`Sched!Fairness`: kernel code and daemons keep executing (weak), the timer keeps firing (weak), and a task
that gets the CPU again and again eventually completes a creation and the statements of its exit behind the test for a free
slot (strong: a slice of 200 ms is long compared to them). Nothing is assumed about user code: a task with leaked preemption may
keep the CPU for ever, and `NoStarvation` and `LettersServed` name that case (`Hogged`). `JoinSpec` adds
that a joiner that gets the CPU again and again executes its loop, to show that even then it never returns.
`Mailbox!FairSpec`: the daemon (weak) and each client (strong) get the CPU, which is `NoStarvation` and the
servers' level. `PageFairSpec`: whoever entered lock, unlock or `get_free_page` gets the CPU;
nobody has to ask for the lock, or to free.
`SDCard!Spec`: the callers run on (servers are never starved, and the shell gets the CPU again), and a card that does not hang
answers and moves its data; one that hangs may do so for ever.

## 4. Proofs

Checked by TLAPS, for all values of the constants:

* `SchedProofs`: `TypeCorrect`, `ParkedCursors`, `SeparateLevels`, `CursorIsCurrent`, `ReapIsUninterrupted`.
  The invariant `IInv` is the conjunction of these properties with two facts about the daemon
  (`ManagerBusy`: a branch is only taken with a letter; `ServersStay`: servers neither create, exit nor
  join). None of the five is inductive alone: that nobody runs while the daemon unlinks
  follows from ticks being ignored on the server level, which needs that the daemon is at that level's
  cursor (`CurrentAtCursor`), which needs that no link leaves its level (`LevelsSeparate`), which the
  unlinking of a pcb preserves only because all links of a pcb stay in its level. One lemma per action.
  They hold with sibling threads too, where `RunQueues` does not, and whatever torn letters make the daemon unlink.
* `SchedProofs` also, for any number of processes in a finite memory that create no threads (`ApplicationsOnly`):
  `QueuesPaired`, `PreemptIsBalanced`, `RegistersSaved`; `QueuesHoldTasks` (`RunQueues`); and the refinement
  `ImplementsRoundRobin` (`CyclicOrder`) with `TurnsAreFair` (`OneTurnEach`), each until a `send_msg` is torn. With threads the queues are not safe in general
  (`pm_deamon.c:65`), so nothing that follows a link could be proved without it. `AInv` adds to `IInv`: links are inverse to
  each other and stay among existing tasks (`LinksPaired`), cursors and
  `current` exist (`CursorsExist`: reaping runs with the application cursor parked), the mailbox names
  each exiting task once, from the store of its letter on, and where a sender in the middle of `send_msg` stands (`LettersOnce`), the exact preemption counts (`Counted`), and that `prev`'s page can be
  free only while `pm_daemon` has the CPU (`SavedLate`).
  `RInv` says what the links lead to without a walk along them: there is a sequence `r` of distinct tasks, the residents and
  then exactly the live applications, along which `nextp` leads from the three heads (`Round`). `ChainIsPath` shows once
  that what `Path` computes is that sequence; `CreateRound` and `ReapRound` what creation and reaping do to it. `Seeking` adds
  where `_schedule` is: its cursor stands at a place of `r`, and nobody ready was passed between the owner and that
  place, or between the owner and the end of `r` once the cursor went back to the front; it never has to go on from there, because
  the first resident is always ready (`ResidentsRun`). So the task that `switch_to` gets is the next ready one, and every
  other step leaves the round alone, or creates, stops or removes. `TInv` says of the history of `SchedTurns` that whoever had the CPU since a
  waiting task had it stands behind that task and not behind the owner (`Waited`); a grant cannot pass the waiting task, and creation and
  reaping keep the order of those that stay (`SameOrder`). TLC agreed with all three invariants on two and three pages.
* `PageProofs`: of the mutex, `MutexExcludes`, `LockWordRight`, together `MutexIsRight`. `MInv` adds that a task lost in
  `unlock` counts as a holder (`UniqueBusy`) and that a store that can still succeed was preceded by a load that saw 0
  (`Reservation`). Of the allocator, `PageTypesHold`; `PagesHandedOutOnce`, `MapIsRight`, together `PagesAccounted`; and the
  refinement `AllocatorIsPool`. `PInv` adds to `MInv`
  what a search has already found free (`Claim`) and that claims, runs in use and runs being cleared are
  pairwise disjoint; the entry-by-entry search is right because a free can only clear entries of runs that
  were given up, and marking is exclusive through the mutex.
* `MailboxProofs`, for any number of callers and slots and wherever ticks come: `MailTypesHold`; and, until a tick breaks a `send_msg`
  (`torn`), the refinement `MailboxIsQueue`, `RefusedWhenFull` and `LettersInOrder`. The last is `Fifo` while `~torn`; without
  that `mail_fifo` refutes it. `RInv` says that, while `~torn`, the full slots are a
  segment of the ring that begins at `index_pop` and ends before `index_push`, the last of them perhaps half written
  (`Ring`), by the only sender there is (`OneSender`); for `Fifo`, that what was posted is what was handled followed by
  what is in the ring (`History`).
* `ComponentProofs`, for all object files and tables of any size: `ComponentTypesHold`, `SymbolsStayLoaded`, `TablesStayLinked`
  (with finitely many pins) and the refinement `ManagerIsRegistry`. All but the first assume `SafeSwap` of what users ask for:
  no scheduler is swapped in for a driver, and no file that cannot be linked replaces a swapped-in one, because the code
  frees the old page in both cases. Files may have any number of operations; `SymbolsLoaded` excepts those that a swap accepted early left
  behind (`left`), and says that the first is never among them, which is why `Registry` can tell what
  answers to a name by its first operation. `ManagerIsRegistry` assumes only that drivers have an operation (`DriversOffer`). `CInv` gives every symbol its own pages
  (`PagesApart`), tells what the letter in hand has already changed (`JobInv`), and that all operations of all symbols that are not left behind are
  offered by the page they lead to and linked (`Loaded`).
* `StreamProofs`, for all chains, cards and sequences of calls: `OnlyOwnBlocks`, `StreamTypesHold` and the refinement
  `StreamIsFile`, which includes what a restart finds. They assume a careful program (`Careful`), and the record of the file in
  the first cluster of its directory (`InFirstCluster`) or in its first block (`FirstRecord`); the last two assume records of one
  length that divides a cluster (`Aligned`). Each is a limit of the code, named above. `BInv` says that the position is
  in the chain or at its very end with nothing to save (`Placed`), and that a pointer is before the buffer only after a read that cut it at the end
  of the file (`Away`); `AInv` that the buffer agrees with the
  card behind `written` (`Fresh`), and what a transfer has in hand that crosses into the next cluster (`Crossing`).
* `SpaceProofs`, for any number of tasks and pages and any number of levels: `SpaceTypesHold`, `PagesHaveOnePlace` and the
  refinement `TasksHaveMemories`, for programs that fit into a page (`OnePage`): `move_to_user_mode` copies the rest of a longer
  one into the pages behind, whatever they are. `SInv` states that translations of two addresses that meet
  in a page belong to one task and agree so far (`Separate`), from which the lists and the disjointness of the
  tables follow; `Families` says who shares tables with whom while a copy is under way. The proof showed that an
  earlier form of `Listed` (no address is listed twice) is false: a thread that faults twice lists its address twice.
* `FolderProofs`, for every card: `FolderTypesHold`, whatever programs and the shell do; and `ShellIsLocated`, for a shell used
  as the code expects (`Careless = {}`) and partitions that begin with their label and have no other (`Labelled`:
  `build_kernel_directory` takes the first record of a root as the name of its partition, and a label
  deeper down would restart the path). `Tree` says of every call of `_search_file` that its page lists what was read of its
  folder so far (`CallsRead`), that no two calls fill one page (`CallsNest`), and that the page of a folder is being filled
  or complete (`FoldersLead`); `NamesOfPaths`, that every path begins with a name, so that `fopen` finds nothing in the root;
  `Places`, where the shell may be at each step of a `cd`. `FopenFindsListed` (`OpensListed`): `fopen` finds the first
  listed file of a name that has a cluster, and a file that is open is read through the partition it is on. It assumes `Distinct` too: labels
  are distinct and of eight characters, as the comparison of `strcmp` with a blank-padded label needs; folders
  in a root have distinct names as `ls` shows them; labels have no cluster and folders have one. `Paths` states that each entry of the
  table has the path of its record (`EntriesFit`) while `tmp_name` is that of the folder being read (`NameFits`), that every
  record that can be found has an entry (`Entered`), and that entries of one folder are in the order of its records
  (`Increasing`), so that the first match in the table is the first in the folder; `Throughs`, that open files are of the shell's
  partition.
* `CardProofs`, for every card, request, number of attempts and of failures: `CardTypesHold`, whatever callers do; and, for
  callers that do only what the drivers support (`Careless = {}`), the refinement `DeviceHolds`.
  A call is a list of steps, so `Plans` says which step may follow which (`ReadLinks`, `WriteLinks`, `MountLinks`; a list is
  cut, extended or replaced, and its pairs of neighbours survive that, which needs no induction). `Phases` says what holds
  before each kind of step: which flags cannot be left from an earlier command (`ReadQuiet`, `WriteQuiet`), and that a read has
  its first k blocks while the controller has the next one or waits for it (`Reading`), or that an error is pending, in which case
  the call can only fail. `Meant` and `Asked` tie a command or a transfer to a write that asked for it, under way or failed:
  without the second half a call that timed out could have its blocks stored in the name of nobody. `Known` and
  `Controller` relate what the drivers know to the card, and a transfer to its state. `CallsSucceed` (`Healthy`): a call fails
  only if something went wrong since the last attempt of mount to reset the card. It assumes `Supported`: requests are
  within the card, and a large card knows `SEND_IF_COND` (else `sdInitCard` takes it for a small one). Its invariant
  `Healthful` says that, as long as nothing goes wrong, every call is on a path of stages (`OnTrack`): `Does` says which step
  may stand at a stage and where it leads, `Guides` that a whole plan leads along, and `Where` what the drivers know
  (`Memory`), and what the card (`CardIn`) and the controller (`Port`) are in at that stage; between calls everything is at rest
  (`Rested`). An attempt begins at the stage `any`, of which nothing is assumed: `sdInitCard` resets the
  controller, `GO_IDLE_STATE` the card, and what the driver remembers is cleared before it is used (`Starting`), so
  that whatever a failed call left behind is gone.

Assumptions: the named ASSUMEs on constants (pages are none of the fixed pcbs, bounds are naturals, the records of a card
lead to its folders), `ApplicationsOnly` and the hypotheses above where a theorem says so. The instances that the passing
runs check satisfy all of these hypotheses except `ApplicationsOnly`: `sched_threads` and `sched_live` have threads. For the
card of `folders`, `Labelled` and `Distinct` are evaluated by TLC (`CardAssumption` of `MCFolders`), and so is `Supported` for
the requests of `card` (`RequestAssumption` of `MCSDCard`). That
`SafeSwap` holds in `components` is due to the choice of `SwapFiles`.

Only model-checked: everything temporal (`NoStarvation`, `LettersServed`, `WaitersReturn`, `PostedServed`,
`RetrySucceeds`, `AllocationReturns`, `CallsReturn`: liveness is beyond the prover); `RunQueues`, `CyclicOrder`, `OneTurnEach`,
`ContextSaved` and `PreemptBalanced` with threads, where the queues are not safe in general (above).

## 5. Not modelled

Boot, printf, vectors, the serial port, the pins: register writes and text without state of their own. Condition variables
and the queueing mutex, and some 1700 lines of `SDCard.c`: nothing in the image uses them. Earlier stages of the tutorial
(`1` to `D`): superseded copies of the same files. They are most of the repository's lines: of 65000, about 11000 are in
`E.file_system`, and half of those are headers of registers, the unused parts above, and test programs. A definition
stands for the lines of the last stage only, although the same function is in up to four more directories.

## 6. Plan

1. `SharedStream`: two threads on one stream with the read/write lock (exclusive monitor as in `Mutex`), both
   crossing into the next cluster.
2. Proofs: the theorems of `ApplicationsOnly` for processes that join their
   threads before they exit.
