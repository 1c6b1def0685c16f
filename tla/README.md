# SVOX Pico text-to-speech: TLA+ verification project

This directory holds TLA+ models of the SVOX Pico engine in `src/pico` and of the
Android layer above it, the TLC configurations that check them and proofs about
them. `PROJECT.json` is the index: which run checks which property, which
definition models which lines, which hazards of the code each property is for.

## 1. The system

Pico turns text into speech. The engine proper is C (`src/pico/lib`): a chain of
nine *processing units* (PUs) that pass *items* (a 4-byte header and up to 255
bytes of content) through ring buffers, driven one step at a time by a
*controller*; below it a *memory manager* and an operating-system layer, beside
it a *resource manager* that loads linguistic data ("lingware") and builds voices
from it. Above it are a C++ engine (`src/pico/tts`) that feeds text and collects
samples, a JNI class that serialises callers with a mutex, and an Android service.

| component | source | state it keeps | operations | what is hard |
|---|---|---|---|---|
| char buffer | `lib/picodata.c` | ring, `front`, `rear`, `len` | put/get a character, an item, the speech of an item, reset | wrap-around, limits, item boundaries |
| control | `lib/picoctrl.c` | `curPU`, `procStatus[]`, one output buffer per PU | step, initialise, terminate | scheduling by stale statuses, back-pressure, when it may say IDLE |
| engine | `lib/picoctrl.c` | voice, input and output buffers, control | new, dispose, feed text, fetch output, reset | failure half-way, reset between steps |
| tokenizer | `lib/picotok.c` | the character, token and tag under way, what tags are open | step, per byte | what looked like a tag and is none, full token |
| preprocessor | `lib/picopr.c` | tokens waiting, the search's path and its best one, contexts, output | step | a search that leaves itself to wait, order of commands and words |
| word, sentence analysis | `lib/picowa.c`, `lib/picosa.c` | a phrase of items and its content | step | forced phrase ends, output full between two transducers |
| accentuation and phrasing | `lib/picoacph.c` | a phrase, its accents and bounds | step | windows smaller than what is looked at |
| phonological transduction | `lib/picospho.c` | a window of items, their phones, flags about bounds | step | side items beside phones, windows that end anywhere |
| phonetic to acoustic mapping | `lib/picopam.c` | a sentence of syllables, features, items between them | step | eighty counters, pauses, forced ends |
| cepstral smoothing | `lib/picocep.c` | indices and frames of a sentence, items beside them | step | a store that is full, fixed-point arithmetic |
| signal generation | `lib/picosig.c`, `picosig2.c` | windows, excitation points, files to save to and play | step | frames late by half a window, output full |
| resource manager | `lib/picorsrc.c` | loaded resources with lock counts, voice definitions, voices, free lists | load, unload, define, add to and release a definition, create and release a voice | counts that must match, failure half-way |
| public API | `lib/picoapi.c` | system, engine handles and their magic numbers | one function per operation | stale handles, order of calls |
| memory manager | `lib/picoos.c` | blocks of cells with boundary tags, a free list, usage counts | allocate, deallocate, protect | splitting and coalescing, fragmentation |
| exception manager, files, SDF | `lib/picoos.c` | current error, warnings; file lists | raise, reset, open, read, close | error precedence, warnings lost |
| knowledge bases | `lib/picok*.c` | immutable tables | look-ups | bounds of tables |
| TTS engine | `tts/com_svox_picottsengine.cpp` | current language, loaded resources, abort flag | init, shutdown, set language, properties, synthesize, stop | stop racing synthesis, language switch failing half-way |
| JNI proxy | `tts/com_android_tts_compat_SynthProxy.cpp` | native object, mutex, pending request | native setup/finalize, speak, stop, stopSync, shutdown | calls from several threads, callback protocol |
| Android service | `compat`, `src/com/svox/pico` | the proxy, current request | onCreate, onSynthesizeText, onStop, onDestroy | life cycle against running synthesis |
| SSML parser | `tts/svox_ssml_parser.cpp` | parsed text | parse | not concurrent, text handling |

How they interact. The service calls the proxy on the synthesis thread and
`onStop` on another; the proxy calls the TTS engine under its mutex except for
`stop`; the TTS engine calls the public API, which calls the engine, which calls
the control; the control calls each PU's `step`; PUs share nothing but the char
buffer between two neighbours. Results travel back as return codes, except audio,
which the TTS engine delivers by a callback of the proxy during `synthesizeText`.

## 2. The modules

A module per component, an abstract specification where there is one, a module that
composes neighbouring units, an `MC` module only where TLC needs definitions for an
instance, a `Proofs` module per component. Mutants (`\* Mutant of ...`) are variants
of the definition below them, each with a plausible bug; no specification uses them.

| module | models | state | actions |
|---|---|---|---|
| `CharBuffer` | `picodata.c`, the ring | `buf`, `rear`, `front`, `len` as in the struct; `result` of the last call | `Reset`, `PutCh`, `GetCh`, `PutItem`, `GetItem`, `GetSpeechData`, each with its refusals |
| `ItemFifo` | what a char buffer promises | a queue of packets | put, take, the refusals |
| `Control` | `picoctrl.c`, `ctrlStep` and the engine | items per buffer, `held` and `ready` items per unit, `procStatus`, `curPU` | `FeedText`, `FetchOutput` (a whole `picoctrl_engFetchOutputItemBytes`: the unit's step, the choice of the next unit, the delivery), `EngReset` |
| `UnitProtocol` | what `Control` assumes of one unit | its two buffers, `held`, `ready`, status | call, pass, neighbours, initialise |
| `Markup`, `Tokenizer` | `picotok.c`: what a tag puts; the unit | the character, the token and the tag under way, open spell and phonemes, the output | one per byte, per state of a tag, feeding |
| `PreprocNetwork` | `picopr.c`, `picokpr.c`: matching and outputs | none: operators | |
| `PreprocOutput`, `Preprocessor` | `picopr.c`: the items put; the search | tokens, path, best path, costs, contexts, variables, output | one per state of the search and of `prStep` |
| `TextInput` | both with their buffers | theirs, the text and what came out | the units' passes, the caller, resets |
| `WordAnalysis` | `picowa.c`, `waStep` | `procState`, `inBuf`, `outBuf` | one per switch case, and the call |
| `SentenceAnalysis` | `picosa.c`, `saStep` | `procState`, the phrase in `headx`, the bytes used of `cbuf1`, `inspaceok`, `needsmoreitems`, the item at hand, `curFst` | one per switch case and branch that changes state |
| `FrontEnd` | the two units and the buffer between them | theirs and the items sent and received | their steps in any order, the units before and behind, soft and full resets |
| `AccentuationPhrasing` | `picoacph.c` | the window, its boundaries and accents, what was last put | one per state of `acphStep`; what the accent tree is asked with |
| `SentencePhonology` | `picospho.c` | the window of items, phones with their positions, side items, bound flags | one per state of `sphoStep` |
| `AcousticMapping` | `picopam.c`, the unit | syllables and items of a sentence, states, the output | one per state of `pam_step` |
| `Prosody` | the three units with their buffers | theirs, words sent and what came out | passes scheduled as `Control` does, the neighbours, a reset |
| `PhoneFeatures` | `picopam.c`, the features | the vector of each syllable, the counters of thirty processors | an item in the forward pass, a syllable in the backward pass, the pauses |
| `Durations` | `picopam.c`, `picodata.c`: speeds, pauses | none: functions | |
| `CepstralSmoothing` | `picocep.c`, the unit | indices and frames of a sentence, items beside them, positions | one per state of `cepStep` |
| `Smoothing` | `picocep.c`: fixed-point arithmetic, band solver | none: functions | |
| `SignalGeneration` | `picosig.c`, `picosig2.c`, `picofftsg.c` as it is called | the order of the signal steps, excitation points, files, the item at hand | one per state of `sigStep` |
| `BackEnd` | the two units with their buffers | theirs, frames sent, speech got and saved, how many frames came before the file | the units' steps in any order, the neighbours, a reset |
| `ResourceManager` | `picorsrc.c` under the system functions of `picoapi.c` | resources with name and lock count, definitions, the voice, the list of free voices, open files | one per public function; a failing call is a disjunct or an action of its own |
| `Allocator` | what the memory manager promises | pieces in use | given, taken back, refused |
| `MemoryManager` | `picoos.c`, `picoos_allocate` and `picoos_deallocate` | cell headers by address, usage counts | `Allocate` (exact or splitting), `Deallocate` (four ways to merge) |
| `Synthesis` | service, proxy, TTS engine | a program counter for the synthesis thread between accesses to shared state, the main thread's place, mutex, abort flag, language, the samples' buffer | see below |

`Control` sees a unit only through the protocol of `picodata.h`: a step takes items from
its input, works on some it holds, puts finished ones and says with its status why it
ended (`UnitStep`). What is in an item, and the ring it travels in, are `CharBuffer`'s.
`UnitProtocol` is that assumption as a specification of one unit, by reference to the
definitions of `Control`. Each composition (`TextInput`, `FrontEnd`, `Prosody`,
`BackEnd`) shows by `UnitsKeepProtocol` that its units, modelled in detail, implement it:
all nine units of the chain.

In the units a step runs from its call until a switch case (an action) returns a status; a
step is not interrupted, as the engine has one thread. An item is its type, its
information, its content as far as it is looked at, and its length where it has to fit
into a buffer. Decision trees, lexica, transducers and probability densities are choices
or parameters: what they answer is data of a language. `MCTextInput` and `MCPhoneFeatures`
hold such data (networks with several productions, contexts, classes of accents; phones).

Of `picofftsg.c`, the transforms, nothing is modelled but when they are called.

`Synthesis` cuts the code where another thread can see the difference: at each access
to `picoSynthAbort` and at each lock and unlock of the mutex. `Request` to `EnterSpeak`
are `CompatTtsService.onSynthesizeText` with the two native calls it makes, `Entry` to
`Finish` are `TtsEngine::synthesizeText`, whose calls of the callback `__ttsSynthDoneCB`
are part of the step that makes them; `Stop`, `StopSync`/`Synced`, `Shutdown`/`Forget`,
`SetUp` are the other threads. `speak`, `setLanguage` and `stop` use the storage their
thread was given whether or not it has been deleted (`Uses`): then `mEngine` may be read as
nothing, as an engine, and from there on the process may end at any time (`Crash`).
What else a write to memory given back may change is not followed. Of the Pico engine below it keeps what `pico_getData`
can answer. `Silence` is how a cleared buffer sounds: the callback clears the buffer
and offers all of it again, so a chunk may be delivered that holds no speech.

## 3. The runs

| run | instance | shows |
|---|---|---|
| `char_buffer` | items: 11 bytes, items of 4 and 5 bytes, callers with 3 to 5; text: 3 bytes, two characters | the ring is a FIFO of whole items, or of characters; refused calls change nothing |
| `control` | 3 units, buffers of one item, one finished item per unit, 2 characters, a reset, failing steps, too small callers' buffers | no work is forgotten, IDLE means empty and is reached again and again |
| `resources` | 3 handles, 3 names, 2 voice names, every limit reached | lock counts match, voices use loaded resources only, names are unique, unloading works exactly when it may |
| `memory` | a block for at most four cells, three request sizes, one junk value | headers, list, counts; no memory lost; `Allocator` is implemented |
| `synthesis` | 2 requests, 2 portions of 2 pieces, a buffer of 2, 2 languages, 2 proxies | language, order, completeness, at most one end per request, storage not deleted while `synthesizeText` works in it, callers return |
| `text_input` | texts of a few bytes with every kind of tag and production, buffers of 3 items, tokens of 3 and tags of 24 bytes, 12 iterations, a reset | every byte accounted for, the cheapest reading found in spite of waiting, order kept, the end of a text comes out, unless a text to be spelled ends the process |
| `front_end` | 4 items of 4 kinds, one-item buffers, phrases of 4 slots and 6 bytes, items of 1 and 3 bytes, 2 transducers, resets | phrases whole, in order and small enough, all transducers applied until a soft reset, the protocol kept, phrases come out |
| `front_end_soft_reset` | the same | after a soft reset a word misses transducers (expected violation) |
| `prosody` | texts with commands, pauses and speeds at every place, windows of 5 and 6 items, 7 syllables and 16 phones, a reset | accents and bounds as the trees say of the right context, phones and commands in order, pauses as asked as far as 16 bits hold them |
| `acoustics` | every sentence of up to 4 syllables, every kind of bound between them; every path of up to 6 frames of 3 distributions | features count what they are named for, phones last as long as they should, smoothed frames are the most likely ones |
| `back_end` | sentences that end at every place of a store of 4 vectors, speech saved and played, voicing that changes in and between phones, a reset | frames spoken once and in order, saved in order (a frame tried again may be written again), excitation points at their distance, the protocol kept, sentences come out |
| `cep_forced` | the same | frames are put over and over (expected violation) |

Why these bounds. The ring's size is no multiple of an item's, so items start at every
offset and wrap at every byte. Three units are the shortest chain with one that has
neighbours on both sides, and with one-item buffers back-pressure reaches all of it. In
the resource manager every limit is smaller than the number of names or handles, so
each is hit and each record is reused. The memory block holds cells whose split leaves
nothing, just enough and too little for another. In the synthesis a portion can be
more than the buffer, and two requests with two proxies let a request outlive the
proxy it was given. In the units the windows, stores and buffers are smaller than a
phrase or sentence of the texts, so each limit is met and each forced end happens, and
the buffers between units hold fewer items than a unit puts at once, so output is full
at every place. The texts of `text_input` have tokens and tags shorter and longer than their
buffers; the network has for each way a token can match
a production, one that waits for a second token, one that is dearer and one in another
network. Four syllables let a phrase, the one before and the one behind differ
in length. In six frames the first two, the last two and frames in the
middle meet; in the third distribution a row is too small to be inverted as it is.

Named bounds that the code does not have: `MaxText`, `MaxResets`, `MaxHeld`, `MaxReady`
(Control), `MaxSent` (FrontEnd), `MaxOpen` (ResourceManager), `MaxText`, `MaxPieces`,
`MaxCalls`, `MaxProxies` (Synthesis), `MaxResets` (TextInput, Prosody, BackEnd),
`MaxSaved`, `MaxGot` (BackEnd), `MaxUttSyll`, `MaxFrames` (MCAcoustics). The constants
that the code does have are smaller than there: a token of 255 bytes is one of 3, 60 items of a window are 6, and so on.
`CHECK_DEADLOCK FALSE` is said of `synthesis` and `text_input` only: once the requests or
texts are used up nothing has to happen.

Fairness. `Control!FairSpec`: the caller of `pico_getData` calls again; one such call is
one step of one unit. It also says that a unit does not make passes over what it holds for
ever (`FetchMoving`): BUSY and ATOMIC alone promise nothing. `FrontEnd!FairSpec` and
`BackEnd!FairSpec`: a step that has begun ends (there is one thread), and each unit and the
one behind them get their turn again and again. Strong fairness stands for the control
here: it comes back to each unit while there is work, as `NothingStranded` and
`IdleAgainAndAgain` show. `TextInput` and `Prosody` are scheduled by `Control!Schedule`
itself: there it is enough that the next pass is made, that the neighbour before feeds
and the one behind takes. `Synthesis!FairSpec`: the synthesis thread runs, and the thread
in `stopSync` gets the mutex once it stays free (`std::mutex` promises no order, but the
requests of a behaviour are bounded, so it does). That the engine works off a text is
not part of the specification but an assumption (`EngineWorksTextOff`) of one part of
`CallersReturn`; `Control!IdleAgainAndAgain` justifies it. That a stop gets through needs
no such assumption: the abort flag is read before every `pico_getData`.

How the functions are checked. `SmoothedAsMeant` says what the solver is for: the weighted
sum of the squared distances of frames and their differences from their means has its
least value, up to 8 units of the inside of the solver. `FeaturesAsCounted` counts each
feature of each syllable afresh from the sentence as a whole. `PhonesAsMeant` adds up the
duration of the states against the limits of a bound. None of them follows the code's steps.

Not in the list of runs, but kept for a reader (each shows a violation, see section 5):
`ResourceManagerTerminate.cfg`, `SynthesisStopInterrupts.cfg`, `SynthesisHeardOnce.cfg`,
`ProsodyAstray.cfg`. `SynthesisHeardOnce.cfg` shows two: TLC stops at the first, take
either line away to see the other.

## 4. The proofs

All theorems hold for every value of the constants that satisfies the module's
assumption; no other fact is assumed.

- `CharBufferProofs`: indices and count agree (`CharTypeOK`, `ItemTypeOK`), and with it a
  buffer of items holds whole items (`ItemsStayWhole`), which is inductive by itself:
  the starts of items shift by the length read from the header, or get one more at the
  end. The lemmas are about arithmetic modulo the size. `RingOfItemsIsQueue` and
  `RingOfCharsIsQueue` show that a ring implements `ItemFifo`. What is held is read off
  the ring by choosing positions that go along with the headers (`Reads`); that there are
  such positions is an invariant (`Readable`), that there are no others is shown by
  counting up (`ReadingsAgree`), so each step can be told from positions before it:
  one more behind (`WriteAppendsItem`), or all moved up (`SkipDropsItem`).
  `RingsAreQueues`, in `MCCharBuffer`, puts two rings side by side as the run does.
- `ControlProofs`: `TypeOK`; `NothingStranded` by cases over the status a step returned;
  `IdleMeansDrained` follows since IDLE is only said when the turn stays at the first
  unit, whose step took all there was, the second is not BUSY and `cbOut` is empty.
- `FrontEndProofs`: `TypeOK` needs that while a phrase is collected a slot is free for the
  forced PUNC, and one more while `inspaceok` lets an item in (`SlotsOK`).
  `AllTransducedUntilSoftReset` needs that the transducers applied to the word at hand are
  those before `curFst`, which is 0 between words (`FstOK`): what a soft reset breaks.
  `PhrasesKept` needs `Lossless` (what was sent is what came out and what the units and
  buffers hold, in order) and where phrases end in each of them (`PhrasesEnd`).
  `UnitsKeepProtocol` maps a step of each unit to a pass of `UnitProtocol` by the numbers
  of items before and after it (`OneUnit`, `PhraseCounts`).
- `ResourceManagerProofs`: lock counts match only because what is not loaded is in no
  voice, so `LocksMatch` and `VoiceIsLoaded` are proved together, strengthened by two
  facts: a system that is down is blank, and the knowledge bases of a voice are those of
  its resources. `UnloadIffUnused` follows as an action property. `NamesUnique` needs
  that the counter of resources is their number, a fact about finite sets.
- `MemoryManagerProofs`: `Tiled`, `Linked`, `Merged` and `NoneLost` are inductive only
  together: merging trusts the left links of used cells, removing from the list trusts
  its links, and both trust that no two free cells touch. The lemmas separate geometry
  (`SplitTiles`, `JoinTiles`) from lists (`RemoveKeepsList`, `ReplaceKeepsList`,
  `InsertKeepsList`). `MemoryHeapSound` puts them together to what the run checks.
  `RefusedOnlyWhenFull` follows from them: a stretch that is long enough and touches no
  used cell lies in one free cell, which is in the list, so the search would have found it.
  `MemoryImplementsAllocator` maps each call to a step of `Allocator`.
- `SynthesisProofs`: the invariant says who holds the mutex at each place of the
  synthesis thread, which storage exists then, and which language the voice has;
  `SpokenAsAsked`, `StorageHeld` and `VoiceIsCurrent` follow. `StorageHeld` is about the time
  within `synthesizeText`, and about behaviours in which deleted storage has not been used
  before; that it is never used is not so, see section 5. `HeardAsSpoken` needs what is
  on its way at each place (`Delivering`): pieces heard and pieces in the buffer are
  numbered in order, and a chunk is offered at most once unless `pico_getData` failed.
  `NothingAfterDone` is an action property of the same invariant.
- `BackEndProofs`: the arrays of both units (`TypeInv`): places in the store of vectors,
  of `headx` and of the window. `PointsFit` needs, of the points of one voicing, that they
  are a period apart, the last of the voicing set last a period before the next peak
  (`Continued`), that nothing is worked on before the window is full and no voiced frame is
  in it before that (`Filled`), that points of the other voicing are left only where it
  changed last and get the response saved then (`Responses`), and that all points of the
  new voicing are new right after a change (`Changed`).
  `UnitsKeepProtocol` needs that frames are put of whole sentences only and no item waits
  for a frame behind the last one (`FramesInv`), as long as the store has not run over.
  The assumption on `Items` says that an item from the unit before is no frame yet and that
  the frames it stands for are such; nothing is assumed of the frames of several items.
  `SpeechAsSent` parts a text, at any time, into the items read by smoothing, those before
  it and those to come (`ReadSoFar`); what smoothing makes of the read ones, into what it
  has put (`E`) and what it still holds (`R`, `MadeOf`); what it has put, into what signal
  generation has read (`D`) and what is on its way (`OnTheWay`). What is held is told by
  place: frame and slot of `headx` are merged by the number of the frame a slot waits for
  (`Waits`), slots are in the order of those numbers (`Sorted`), and that holds in each of
  the places where `cepStep` may stop between two items. What signal generation has put is
  the signal of `D` (`SigLink`), with the item at hand where its step is not over.
  `SavedAsHeard` needs that a file has all frames put since it was opened or one more, the
  one that found the buffer full and is put again (`Fits` in `SavedInv`): writing it once
  more is a new try of the same frame (`FitsAgain`), putting it makes it heard (`FitsSome`).
  Both properties compute with folds over a text. The library defines those by
  `CHOOSE` of a function on sets; `FoldExists` and `FoldOK` show, by well-founded induction
  on finite sets of indices, what such a fold is, and `Makes` how it goes on with one item
  more (`MakesMore`), from which the facts about each fold follow.

Only model-checked: everything about liveness; the text input (`TokensAsWritten`,
`BestReading`, `InOrder` and its protocol), whose readings are RECURSIVE operators; the
prosody units (`PhrasedAsRead`, `SpokenInOrder`, `PausesAsAsked` and their protocol), which
need bounds of four windows before a step can be told from the next; features
(`FeaturesAsCounted`, `PhonesAsMeant`) and smoothing (`SmoothedAsMeant`), whose definitions are
recursive in the length of a sentence or of a band. Most leaves of the proofs are found in
less than half the time they are given, so they do not depend on a fast machine;
`BackEndProofs` as a whole takes a quarter of an hour, most of it to prepare obligations.

## 5. Where the code differs from what it says

Two runs show a difference, see "findings" in `PROJECT.json`: a soft reset keeps `curFst`,
so the next word misses transducers (`picosa.c:297`); a sentence too long for the store of
vectors is put over and over (`picocep.c:1733`).

Shown by a configuration that is kept: `pico_terminate` leaves resource files open
(`picoapi.c:176`); a stop can be overwritten (`com_svox_picottsengine.cpp:1479` and 1619);
samples are repeated after an error (`com_svox_picottsengine.cpp:1592`); storage is used
after it was deleted: `speak`, `setLanguage` and `stop` take it before they have the mutex, or
without it, and `shutdown` may run in between (`com_android_tts_compat_SynthProxy.cpp:459`,
546 and 578), although a comment in `stopSync` says that the mutex protects it; side items of the
phonology lose their place after a forced window end, against the assertion at
`picospho.c:1331`.

Met while modelling; the models do as the code does:

- Control and analysis. Statuses survive a reset (`picoctrl.c:102`), against the rules in
  the comment of `ctrlStep`; it costs needless steps only. Space for an item is judged
  before the one at hand is added, so a phrase of long items fails (`picosa.c:1287`).
- Tokenizer. Where a tag gets too long the character at hand is kept and treated again
  (near `picotok.c:1345`). If it has several bytes, the 0 behind the tag is written to the
  low byte of the tag's length, 1276 becomes 1024, and some 250 bytes of text are not read
  again (`picotok.c:1239`); whether that is so is up to the build, so the model has both
  (`EndMarkupStr`). A tag's name of 255 bytes or more overwrites the fields behind
  `markupTagName` (`picotok.c:1118` and 1124): the model has no names of that length. A
  tag's name directly before `>` or `/` is not brought to lower
  case, so `</SPEED>` is read as text. Space before a tag is put behind it.
  A token over its buffer may be split within a character; an incomplete character before
  the end of a text swallows the first of the next. A negative level becomes the maximum.
- Preprocessor. A flush, or a command, that ends the waiting goes back without trying the
  token's alternatives. A production of another network is charged the preference of the
  PROD attribute, not its own (`picopr.c:2378`). Costs of preferences are lost in places,
  commands within a nested production without variable too. The first letter to be
  spelled, by a `spell` tag of any mode but an unknown one or 0 milliseconds, ends the process: the token made
  of it has no room for its copy in lower case, which is written through NULL
  (`picopr.c:1009`, 1220 and 1233); the model stops there (`SpellFirstLetter`), and the pauses
  between letters are never reached. PHON puts nothing ("not yet
  implemented"); SAVE and PLAY are put twice by GenFile and Play with string or variable;
  tokens that do not fit `outBuf` are dropped. VIX counts as 14, and no digits as 0.
- Accentuation. The first word of a phrase is never counted among the words to the left,
  nor the word's own secondary bound looked at; commands stop the counting on either side.
- Phonology. An item whose content does not fit the rest of `cbuf` is lost; a window full of
  items with one word that waits for its right side stays full for ever; `force` may be
  stale; the second phone of a phrase end is never added. The time of a pause is kept with 16
  bits and a bound's with a sign: a pause above 32767 ms is not made at all, and the sum
  of several wraps at 65536 (`picospho.c:157`, 819, 873 and 1343), though a tag may ask
  for 65535 ms. `PausesAsAsked` asks for what fits, and nothing of windows that begin with a
  flag of the one before (`Astray`).
- Acoustic mapping. After a forced end syllable 0 keeps the items of its predecessor; an
  item within 4 bytes of the limit is dropped; many pitch commands behind a forced end fill
  the output buffer for good; FLUSH does not get this far. States of a phone are bytes: a
  pause of 5000 ms lasts 900. Limits are read as unsigned and passed as signed 16-bit
  numbers: above 32767 ms a pause would be cut to nothing, but the phonology lets none
  through. A pause all of whose states are 0 would be
  divided by 0. The type of a forced sentence's beginning is set after it was reset to 0.
- Cepstrum. Rounding of negative numbers differs from that of positive ones
  (`picocep.c:1106`). The inverse of a diagonal element that is a power of two and small
  enough to be scaled does not fit into the signed number it is kept in (`picocep.c:741`);
  the instance has no such element.
- Signal. A frame to be saved is written again at each try to put it (`picosig.c:1192`);
  a reset forgets open files; a soft reset between loading a frame and
  the transition loses a change of voicing, and then points of two stretches of different
  periods meet in one list; `PointsFit` therefore speaks of full resets.

## 6. Not modelled, and why

Outside the models: the Android framework (it calls the service as the API says, one
synthesis at a time), expat, the C library. Left out of a modelled part: protected memory
and growing the heap (`pico_initialize` never asks for them), queries of the TTS engine
that run without the mutex, `setSpeechRate` and `setPitch` (which take the storage as `setLanguage` does), the 16 bits of
`text_remaining`, the parsing of resource files; what trees and transducers make of items,
the densities and F0; samples and spectra; the path of F0, whose inverses use all
32 bits (`PICOCEP_LFZINVPOW` is 31, more than TLC's integers hold). Components that are not
modelled are in `PROJECT.json` with the reason: knowledge bases (read-only data), the
exception manager and files (they report, nothing depends on their order), the SSML parser
(a client of expat), user interface, installers, data.

## 7. The plan

Done: char buffer, control, resources, memory, synthesis, then the nine units in four
compositions, then the pure functions of durations, features and smoothing; proofs of all
safety properties of the first five, of the front end and of the back end, and that four
of the nine units keep the protocol. Left, in order of use: bounds of the windows of the
prosody units and their protocol; the exception manager and the SSML parser.

Conventions: sizes, alphabets and numbers of units are CONSTANTS with a named
assumption; each operation of the code is one action; no module that is proved about
uses a RECURSIVE operator.
