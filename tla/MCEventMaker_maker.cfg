SPECIFICATION Spec
CONSTANTS
  weak = weak
  strong = strong
  short = short
  long = long
  T = T
  NoText = NoText
  NoKey = NoKey
  BadKey = BadKey
  NoTags = NoTags
  Keys = {weak, strong}
  KeyBits <- MCKeyBits
  TagLists = {T}
  TagPairs <- MCTagPairs
  Texts = {NoText, short, long}
  Times = {7, 250}
  KindNumbers = {1, 4}
  Difficulties = {1}
  TimeLimit <- MCTimeLimit
  ClipTime <- MCClipTime
  TagsSize <- MCTagsSize
  TextSize <- MCTextSize
  FrameSize = 1
  BufSize <- MCBufSize
  MaxTags = 2
  MaxBits = 1
  MaxOptions = 4
  MaxNonce = 2
INVARIANTS
  TypeOK
  PrintedEventsVerify
  SignedIsPrinted
  PowHonoured
  TagsAreKept
  DmIsEncrypted
CHECK_DEADLOCK FALSE
