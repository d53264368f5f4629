SPECIFICATION Spec
CONSTANTS
  Drafts <- MCDrafts
  Patches <- MCPatches
  Callers = {"trusted_writer", "cron_summarizer"}
  Sources <- MCSources
  Denied = {}
  MinChunk = 2
  MaxLen = 8
INVARIANTS
  HeadingsSurvive
  AppendedIsFound
  ReplaceIsIdempotent
  ChunksCoverNote
  ChunksNest
  SourcesAreFound
