SPECIFICATION FilesSpec
CONSTANTS
  Existing = {"a.log", "b.log"}
  Listed <- MCListed
  AllPatterns <- MCAll
  TaggedPatterns <- MCTagged
  Findings <- MCFindings
  Path <- MCPath
  Zst = {"out.json.zst", "data.zst"}
  Creatable <- MCCreatable
  Commands <- MCCommands
  MaxKills = 1
INVARIANTS
  FilesTypeOK
  ArgumentsUsedOnce
  StreamsWhole
  ProcessReadsWhole
