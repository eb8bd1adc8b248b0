SPECIFICATION Spec
CONSTANTS
  Files = {"gpio20", "gpio21", "gpio1", "gpio", "gpio2", "led", "lifo", "text"}
  SwapFiles = {"gpio20", "gpio21", "gpio1", "gpio2", "led", "text"}
  About <- MCAbout
  Names = {"gpio", "led", "scheduler"}
  OpNames = {"pullup", "read", "blink", "lifo"}
  Paras = {0, 1}
  Pins = {"pin21"}
  Pages = {p1, p2, p3}
  Slots = 2
  Syms = 2
INVARIANTS TypeOK TablesAgree SymbolsLoaded
PROPERTY Registry
SYMMETRY Perms
CHECK_DEADLOCK FALSE
