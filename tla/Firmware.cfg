SPECIFICATION SpecFw
CONSTANTS
  I = I
  G = G
  B = B
  A = A
  H = H
  P = P
  Chars = {1, 2, I, G, B, A, H, P}
  NoChar = 0
  BufLen = 2
  MaxArrive = 2
  MaxWrite = 0
  Lens = {}
  bitbang <- MCbitbang
  splash <- MCsplash
  input_request <- MCinput_request
INVARIANTS OnlySplashLost OverrunSeen EchoOnce
PROPERTY KeyAskedFor
CHECK_DEADLOCK FALSE
