SPECIFICATION LiveSpec
CONSTANTS
  Readers = {r1, r2, r3}
  MaxChunks = 5
  Batch = 2
  Ttl = 2
INVARIANTS TypeOK DropIsSound
PROPERTIES AbsentIsFinal ImplementsContract EverythingGoes
