\* One project sound, and a second runtime task in case the first outlives its
\* game.
SPECIFICATION Spec
CONSTANTS
  Sounds = {sound1}
  Ui = ui
  MaxCopies = 2
  Tasks = {task1, task2}
  None = None
  MaxPending = 1
INVARIANTS TypeOK TeardownAlone SoundReadsLive NoSoundLost MenuSilent GameOffline ReportedLink
