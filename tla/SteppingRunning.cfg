CONSTANTS
  Thread = {t1}  NoThread = NoThread
  Addr = {2, 4, 6, 8, 9, 10}  Start = 2
  Flow <- MCFlow  Over <- MCOver  Return <- MCReturn
  Setups <- Running
SPECIFICATION SpecRunning
INVARIANT NoMidInstruction
