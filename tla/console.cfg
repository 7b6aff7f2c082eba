SPECIFICATION Spec
CONSTANTS
  Cpu = {c0, c1}
  Cpu0 = c0
  NoCpu = NoCpu
  Proc = {p1, p2}
  NoProc = NoProc
  INPUT_BUF = 2
  Width = 2
  Key = {"x"}
  MaxN = 2
INVARIANT InterruptsMasked
INVARIANT NoLostWakeup
PROPERTY ConsoleIsTerminal
