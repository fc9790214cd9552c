CONSTANTS
  SeqHalf = 8
  TsHalf = 8
  JITTER_SLOTS = 4
  WINDOW = 2
  RESYNC_BEHIND = 3
  RESYNC_MIN_RUN = 2
  RESYNC_PREROLL = 1
  NoPkt = NoPkt
  FILL = 2
  HOLD = 2
  FIRST = 12
  SEQS = {1, 14}
  LAG = 4
  JUMP = 4
  EPOCH_MAX = 8
  BURST = 3
  LAST = 21
  MAX_EPOCHS = 3
SPECIFICATION MCSpec
INVARIANTS RingFaithful ResendWanted NoFreshRejected
PROPERTIES PlayoutSpec NoReceivedLost ResyncNotWithheld PacedPlays
