---------------------------- MODULE MCComponents ----------------------------
(***************************************************************************)
(* Files as in testcode: a driver and its replacement (GPIO_OP20 and        *)
(* GPIO_OP21), one whose parameters differ, one with two operations (GPIO)  *)
(* and its replacement, a driver that calls the first, a scheduler          *)
(* (LIFO_SCHED), and something that is no ELF file.                         *)
(***************************************************************************)
EXTENDS Components, TLC

Op(name, para) == [name |-> name, para |-> para]
Driver(name, ops, needs, pin) ==
  [elf |-> TRUE, kind |-> "DRV_COM", name |-> name, ops |-> ops, needs |-> needs, pin |-> pin]

MCAbout == [f \in Files |->
  CASE f = "gpio20" -> Driver("gpio", <<Op("pullup", 0)>>, {}, Null)
    [] f = "gpio21" -> Driver(Null, <<Op("pullup", 0)>>, {}, "pin21")
    [] f = "gpio1"  -> Driver(Null, <<Op("pullup", 1)>>, {}, Null)
    [] f = "gpio"   -> Driver("gpio", <<Op("pullup", 0), Op("read", 0)>>, {}, Null)
    [] f = "gpio2"  -> Driver(Null, <<Op("pullup", 0), Op("read", 0)>>, {}, Null)
    [] f = "led"    -> Driver("led", <<Op("blink", 0)>>, {<<"gpio", "pullup">>}, "pin21")
    [] f = "lifo"   -> [Driver("scheduler", <<Op("lifo", 0)>>, {}, Null) EXCEPT !.kind = "SCH_COM"]
    [] f = "text"   -> [Driver(Null, <<>>, {}, Null) EXCEPT !.elf = FALSE]]

\* Pages are interchangeable: the code takes the first free one.
Perms == Permutations(Pages)
=============================================================================
