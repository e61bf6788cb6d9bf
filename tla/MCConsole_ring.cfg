SPECIFICATION Spec
CONSTANTS
  Chars = {1, 2}
  CONSBUFSIZE = 4
  DevMax = 2
  Backlog = 3
PROPERTIES ImplementsQueue
