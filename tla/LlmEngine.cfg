CONSTANTS
  r1 = r1  r2 = r2  x = x  sys = sys  a = a  b = b  img = img  None = None
  Requests = 2
  Routers = {r1, r2}
  Boot = r1
  Expert = x
  Shelf = {x}
  Vocab = {b}
  Persona <- PersonaTokens
  Prompts <- SomePrompts
  Hard <- HardPrompts
  Picture <- SomePicture
  NCtx = 5
  Reserve = 1
  Window = 1
  MaxAnswer = 4
  MaxTroubles = 1
SPECIFICATION Spec
INVARIANTS ContextIsThePrompt CancelIsHeard BeliefsAreTrue
CHECK_DEADLOCK FALSE
