# A TLA+ verification of gazosan

gazosan compares two images (`-old`, `-new`) and writes `PREFIX_diff.png`, the
old image in grey with what changed in red, and, with `-create_change_image`,
`PREFIX_delete.png` and `PREFIX_add.png`, which outline the segments that have
disappeared from the old image and those that are new in the new one. This
directory models the program's own logic in TLA+, checks the models with TLC on
small instances, and proves the main results for all instances with TLAPS.

The code exists in two builds. With `ENABLE_PARALLEL` the stages run as oneTBB
tasks; without it (the default, `CMakeLists.txt:20`) the same bodies stand in
`for` loops. Both are modelled, since they behave quite differently.

## Inventory

| Part | State | Operations | Interacts with |
|---|---|---|---|
| `main` (`main.cc`) | `Context` | runs the stages one after the other | all of the others |
| `parse_args` (`cmdline.cc`) | position in the arguments, `ctx.arg` | one per option, defaults, `Fatal` | `main` |
| `load_image`, `MappedFile`, `Fatal`, `SyncOut` (`image.cc`, `gazosan.h`) | mapped files, decoded images, the output mutex | open, fstat, mmap, decode, convert; two tasks | the file system, OpenCV |
| `check_histogram_differential` (`image.cc`) | none | normalised chi-square distance, threshold | `main` ends the program on "same" |
| `split_segments` (`image.cc`) | `markers`, queue, corners, `segments` | scan, breadth-first search | labels from OpenCV |
| `detect_segments` (`image.cc`) | the two segment vectors | one task per image, one per descriptor | `split_segments`, AKAZE |
| `descriptor_match` (`image.cc`) | none | two matchings, cross check, median | FLANN |
| `create_diff_image` (`image.cc`) | `matched` flags, `result`, output files | nested loops over pairs, painting, three outputs | everything before it |
| `Timer`, `TimerRecord`, `print_timer_records` (`perf.cc`) | timer records | start, stop, derive parents from intervals | every stage, from any thread |
| `save_segments`, `errno_string` | none | dead code; error text | |
| `third-party/tbb` | | vendored | the parallel build |

What is hard here:

* **Races.** The inner tasks of `create_diff_image` test a segment's `matched`
  flag (a plain `bool`), then run the slow `descriptor_match`, then set it, all
  unsynchronised. They paint overlapping places of one shared image. The only
  synchronisation is the join of the loops.
* **One body, two meanings.** `return` ends a task in one build and the whole
  function in the other; the loop variable is a reference in one and a copy in
  the other.
* **A search that destroys its input.** `split_segments` overwrites the markers
  that the scan around it is still reading, starts from a pixel it has not
  marked, and tells lone pixels apart by their corners.
* **Failure.** An exception leaves one task while others run; `imwrite` fails
  silently; two loading tasks may both try to end the program.
* **Inputs read twice.** The change images are decoded again from the mapped
  inputs, after outputs have been written that may be those very files.
* **Structure guessed from numbers.** Timer parents come from overlapping
  intervals, verdicts from medians and from distances that skip empty bins, and 0
  stands for "not given".

What makes each part correct: the outputs of `create_diff_image` are a function
of segments and verdicts as far as they can be; each connected group of pixels
gives one rectangle, inside the image; a failure to load ends the program with
one whole message and status 1; each argument is consumed once; each timer
record has one parent, created before it and covering it.

The full list of hazards, each at its line, is in `PROJECT.json`.

## Modules

| Module | Models |
|---|---|
| `DiffData` | the inputs of `create_diff_image` and what they say about its outputs: `Matchable`, `RedOf`, `Partners`, `Doomed` |
| `DiffOutcome` | abstract specification: which files the function leaves, with no loops, tasks or flags |
| `DiffParallel` | `create_diff_image` with `ENABLE_PARALLEL` |
| `DiffSerial` | `create_diff_image` without it |
| `SplitSegments` | `split_segments` |
| `Startup` | `load_image`, `MappedFile::open`, `Fatal` and `SyncOut`, and what `main` does with the answer of `check_histogram_differential`, in both builds |
| `Histogram` | `check_histogram_differential` on two decoded images |
| `Detect` | `detect_segments`, in both builds |
| `DescriptorMatch` | `descriptor_match` |
| `Placement` | the place of one matched segment in `create_diff_image`: `matchTemplate`, `rect_from`, the pixel loop |
| `CmdLine` | `parse_args` |
| `Perf` | `Timer`, `TimerRecord`, `print_timer_records` |
| `Gazosan` | `main`: the stages in order, and the files on disk, in both builds |
| `MCUnits` | `Detect`, `Placement`, `DescriptorMatch`, `Histogram` and `CmdLine` in one run: a behaviour exercises the one that `unit` names, the others are at rest |
| `MCDiffParallel`, `MCDiffSerial`, `MCPerf` | the values of the constants in TLC's instances |
| `DiffParallel_proofs`, `DiffSerial_proofs`, `SplitSegments_proofs`, `Startup_proofs`, `CmdLine_proofs`, `Perf_proofs`, `Gazosan_proofs` | the theorems about the module of that name |
| `Image_proofs` | those about `Detect`, `Placement`, `DescriptorMatch` and `Histogram`, the functions of `image.cc` that share a run |

How they fit together: `Gazosan` takes each stage as one step or a few, with the
ways of ending that the stage's own module shows. `Startup` implements its load and
check stages (`ImplementsMain`), so `LoadFails` has the endings of the two tasks;
`Verdicts` uses that an image is never told from itself
(`Histogram`, `ProportionalIsSame`); `Detect`'s `SegmentsReady` is what the diff
models assume of the segments (a descriptor is there or not, once and for all);
`SplitSegments`'s `InImage` is `Placement`'s initial condition; `Placement`'s
`AccessInside` is what lets `DiffData` take a placed segment that fits into the old
image as a set of pixels of that image (`PaintAssumption`; the larger segments,
with which the pixel loop leaves the image, are in `Placement` only); `DescriptorMatch` gives the verdicts that `DiffData` leaves open.

Some definitions are preceded by a faulty variant (`SkipsIgnoringFlag` before
`Skips`, `DirsStraight` before `Dirs`). No action uses it; put in the place of
the definition it makes the property named in `PROJECT.json` fail, which shows
that the property depends on that piece of the code.

### DiffData and DiffOutcome

Segments are identities. `descriptor[s]` says that AKAZE found something in the
segment, `verdict[o][n]` what `descriptor_match` answers, `placeable[n]` that
`matchTemplate` accepts the segment's region. All three are chosen freely at the
start and never change. The code asks about a pair at most once, so a verdict
chosen in advance also stands for the randomised answers of FLANN. `Frame[n]` and
`Differs[n]` are the pixels that the rectangle and the pixel loop paint for `n`.
They depend on `n` alone, because the place of `n` is searched in the old image
and not in the old segment it was matched with.

`DiffOutcome` says: the diff shows all *matchable* new segments (some old segment
is similar to them), whoever matched them; the added image outlines exactly the
others; the deleted image outlines the old segments outside some set of
`Partners`, and this is the only freedom; if a matchable segment cannot be
placed nothing is written.

### DiffParallel

| TLA+ | Code |
|---|---|
| `outer[o]`, `inner[o][n]` | program counters of the tasks of the two `parallel_for_each` (image.cc:293, 300) |
| `matched`, `result` | `ImageSegment::matched`, the image `result` |
| `left[o][n]` | the differing pixels the loop at image.cc:320 has yet to write |
| `change`, `pending`, `outlined` | the two tasks of `create_change_image` and what `draw_not_matched` has drawn |
| `files` | output files, as name and content |

Each access to shared state is an action: the test of the flags (`BeginOuter`,
`BeginInner`), the end of `descriptor_match` (`Compare`), the two assignments
(`ClaimOld`, `ClaimNew`), `matchTemplate` (`Place`), the rectangle (`DrawFrame`)
and each pixel (`PaintPixel`). The flags are bytes and the pixels all get the
same colour, so a step per access covers what the race can produce. At most
`ThreadCount` inner tasks are at work at once; a thread waiting in TBB runs other
tasks, so waiting takes no thread. An exception (`Place`) lets other tasks go on
or start until the loop has nothing running, and then ends the function
(`Abort`).

### DiffSerial

The same body with positions `i` and `j`. The two `return`s that end a task in the
other build leave the function here: `BeginOuter` has the one for an old segment
without a descriptor (image.cc:298), `Leave` the one for a pair that does not match
(image.cc:305); `FlagsAfter` says that the flags of
the context are the same after the body as before, since the body set those of
its copies. `Outlined` is `draw_not_matched`, whose own `return` would stop at the
first matched segment.

### SplitSegments

`markers`, `x`, `y`, `Q`, `minP`, `maxP` and `segments` are the variables of the
code; `cur` and `d` are the pixel being expanded and the next of its eight
neighbours. `labelled` is an auxiliary variable that remembers the pixels that
had a label before the scan. `Label` stands for all the image processing, and for
the early return when there are no contours. Since the code gives every pixel a
positive marker, `cv::watershed` has nothing to flood and only sets the border
to -1; hence `Labellings`. Filled contours cannot leave every one of them, so the
properties that hold are shown for more than the program meets, and the trace
of `split_cover` is representative only: `RectsCoverGroups` fails for every group,
since no rectangle contains its `maxP`. The search treats all labels above 1 alike.

### Startup

`file[side]` says what is wrong with an input file, if anything: `::open`, `fstat`
or `mmap` fails, it is empty, or it holds no image. `same` is the verdict on the
histograms. `task[side]` is the body that loads one file; `Parallel` tells the
builds apart (the serial one loads the new image first, `MayStart`). `mu` is
`SyncOut::mu`, `stderr` what the destructor of `SyncOut` has written. Its `<<` of
the text and its `<<` of the newline are two actions, since two tasks may be in
`Fatal` at once and `_exit(1)` may come from the one while the other is printing.
An exception in a task reaches `main` when no task is under way (`Settled`,
`Rethrow`) and nothing catches it; a task in `Fatal` never comes back, so then
only `_exit(1)` can end the program. The text that the C++ runtime itself prints
before it aborts is not part of `stderr` here. `parse_args` has made sure that
both file names are there, so the tests at image.cc:22 and 32 are always true.

### Histogram

`old[b]` and `new[b]` are the pixel counts per bin. `normalize` and `compareHist`
are computed exactly: `AddBin` adds a bin's term to the fraction `num / den`, in
the unit that the scaling of `normalize` leaves (`Unit`), and `Compare` is the
threshold; the code's floats may differ from it by rounding only.
Some bin is always empty (180 hues share 256 bins), so the minimum is 0. The
tolerance of the instance, 1/10, stands for the code's 1/100000: with counts of a
few pixels the smaller one would admit nothing but equality.

### Detect

`rects[side]` is what `split_segments` returns and what AKAZE makes of each
rectangle. `task[side]` is `do_detect` for one image, `waiting[side]` the segments
whose descriptor is still to be computed, by tasks (`Parallel`) or in order. An
empty region has no descriptor; such regions do occur (see `split_cover`).

### DescriptorMatch

`distance` is any table of distances and `match12`, `match21` any answers, since
FLANN's search is approximate. `CrossCheck` is a round of the loop that keeps a
match if the other search agrees (`Mutual`). `Sort` allows any order among equal
distances.
`MajorityDecides` is the reference: the median is within the threshold exactly if
more than half of the matches are.

### Placement

The names of the specification are `PlaceInit`, `PlaceNext` and `PlaceSpec`, so that
`MCUnits` can extend this module together with `Detect`. `Offsets` is `matchTemplate` with `minMaxLoc`: every offset at which the smaller of
the two images lies in the larger one, whichever that is; if neither contains the
other it throws. Pixel values are open, so every pixel may or may not be painted.
`OutOfImage` is the unchecked `at<>()` outside the image, after which nothing is
said.

### CmdLine

`args` is any of the `CommandLines`, which are sequences of words. `ReadArg` and `ReadFlag` are the two lambdas
with the assignments that follow them; `StoiThrows` is the exception that nobody
catches. `Options`, used by the properties only, says by a recursive function over
the arguments which of them are options and which are values. The code reads
`-color-diagnostics` as an option with a value, hence so does the model.
The ends of `parse_args` that end the program (`-h` with status 0, `Fatal`, the
exception of `stoi`) are here and not in `Gazosan`.

### Perf

A *scope* is a `Timer` object. `Around[s]` are the timers alive throughout its
life, `Earlier[s]` those gone before it begins on any schedule; two scopes that
neither relation orders are in different tasks. A run may do without the timers in
`Optional` ("grouping" of an image without contours, the change images); one that
it has done without does not begin after the later ones have (`Gone`). `MCPerf`
lists the program's timers. `Construct` and `Register` are two steps because another task's record can
enter the vector in between. Clock readings never decrease and may be equal.
`NextRoot` is a round of the loop over the records without a parent;
`print_rec`'s recursion is the stack `todo`, from which `PrintRec` takes a line and
onto which it puts the lines of the children, in any order that sorting by start
may give. User and system times are left out.

### Gazosan

`disk` is what the files hold, `before` what they held at the start. Contents are
terms: `ChangeOf(segs, img)` is an image with the outlines of the segments of
`segs` drawn on `img`, so an output tells what it was made from. `nameOf[side]` may
be an output, such as the `PREFIX_diff.png` of an earlier run. The model begins when
`parse_args` has returned. `imwrite` empties
the file (`Garbage`) and then fills it. It may be unable to open it (`writable`) or,
on a full disk, to fill it (`failing`), and nobody looks at its result: in the first
case the file stays what it was, in the second `Garbage`. `parallel` tells
the builds apart; it is chosen at the start and never changes. An input that
has been written to since it was mapped with `MAP_PRIVATE` may show its old
content, its new one or something that cannot be decoded (`Reread`), or be shorter
than the mapping (`ReadPastEnd`, SIGBUS). `LeaveEarly` is either of the two returns
that only the serial build takes.

## Runs

| Run | Checks | Instance |
|---|---|---|
| `diff_parallel` | `TypeOK`, `FrozenAfterJoin`, `ImplementsOutcome`, `Termination` | 2 old, 2 new segments, 2 threads, all descriptors, verdicts and placements |
| `diff_claims` | `ClaimBound` | 3 old (symmetric), 2 new segments, 2 threads, `_delete.png` not writable |
| `diff_serial` | `TypeOK`, `AllOrNothing`, `Termination` | 3 old, 2 new segments, all inputs |
| `serial_output` | `DiffAlwaysWritten`: **violated** | as `diff_serial` |
| `serial_added` | `AddedAreUnmatched`: **violated** | as `diff_serial` |
| `split_segments` | `TypeOK`, `OneRectPerGroup`, `InImage`, `QueueDistinct`, `WholeGroups`, `Termination` | all 4096 labellings of a 6x5 image |
| `split_cover` | `RectsCoverGroups`: **violated** | all labellings of a 4x4 image |
| `startup` | `TypeOK`, `WholeLines`, `EndExplained`, `ImplementsMain`, `Termination` | parallel build, all pairs of files, both verdicts |
| `startup_decode` | `DecodeFailureReported`: **violated** | serial build, likewise |
| `units` | `UnitsTypeOK`; `SegmentsReady` (`Detect`); `AccessInside`, `EveryPixelCompared` (`Placement`); `MajorityDecides`, `OneToOne` (`DescriptorMatch`); `ProportionalIsSame`, `OldColoursCompared` (`Histogram`); `SettingsExplained`, `FirstEnderDecides` (`CmdLine`); `CallsEnd` (`Detect` and `CmdLine` end) | parallel build with up to 2 rectangles per image; all images up to 3x3 and all segments in them; all distances and answers for descriptors of up to 3 and 2 rows; all pairs of histograms over 3 bins with counts up to 4; all command lines of up to 4 of 12 words, and those that name both files and go on with up to 3 more |
| `perf` | `ParentsCover`, `Attribution`, `ForestPrinted`, `Termination` | nine timers of a parallel run, 3 clock readings, a new image with contours or without |
| `gazosan` | `TypeOK`, `OutputsFresh`, `WholeFiles`, `FatalTouchesNothing`, `DrawnOnItsImage`, `Termination` | both builds, any names and contents of the files, any outputs that cannot be opened or not be filled |

* `ImplementsOutcome`: the detailed specification implements `DiffOutcome`. Tasks
  that overwrite each other's flags, take the same segment or paint the same
  pixel never change the diff or the added segments.
* `ClaimBound`: the race is real (two old segments do take one new segment) and
  bounded by the number of threads; with one thread the pairing is unique.
* `FrozenAfterJoin`: what `imwrite` and `draw_not_matched` read is final.
* `AllOrNothing`: the default build reaches its outputs exactly when every old segment has a descriptor and *every* old
  segment matches *every* new one.
* `OneRectPerGroup`: compared with the 8-connected groups computed independently
  (`Groups`: two pixels are in one group if no set closed under neighbourhood
  separates them). There is one rectangle for each, no more and no fewer.
* `WholeGroups`, `QueueDistinct`, `InImage`: between two searches nothing
  processed touches anything still labelled; no pixel waits twice in the queue;
  `gray_mat(rect)` in `detect_segments` cannot throw.
* `WholeLines`: a message is followed by its own newline or is the last thing
  printed, even when the other task's `_exit` cuts it off.
* `EndExplained`: status 1 comes with a whole line from a thread that had reason
  to print one; an abort means an undecodable file and an empty `stderr`,
  whatever the other task did; `main` goes on only with two different images.
* `ImplementsMain`: with `NameOf`, `Content` and `Disk` as the refinement mapping,
  everything the tasks, their `Fatal`s and `main` do is a step of `Gazosan` or none.
  `Gazosan` sees the images loaded when `main` has joined, and an end when `_exit`
  or the abort happens, so a `main` that goes on after one task
  (`JoinFirst`) is no longer a `Gazosan`.

* `SegmentsReady`: nothing is lost or out of order however the tasks of the two
  images and of the descriptors interleave.
* `OneToOne`: what is left after the cross check is a matching, so a median over
  it counts no row twice.
* `ProportionalIsSame`, `OldColoursCompared`: scaling an image changes nothing, and
  a change in one colour of the old image cannot hide behind the others.
* `AccessInside`: the unchecked accesses leave the old image for a segment that is
  larger than it and for no other, and never leave the new image.
  `EveryPixelCompared`: when it fits, the double loop leaves no pixel out.
* `SettingsExplained`, `FirstEnderDecides`: compared with a reading of the whole
  command line that does not follow the loop. The settings include
  `color_diagnostics`.
* `ParentsCover`, `ForestPrinted`: parents precede and cover their children, so
  `print_rec` ends, every record is printed once, and the indentation can be read
  back. `Attribution`: a wrong parent is either a timer of a concurrent task or
  the effect of two readings of the clock being equal; both do occur.
* `DrawnOnItsImage`, `OutputsFresh`: the second decoding is harmless unless the
  input is an output written before it; which those are depends on the build
  (`Rewritten`). Status 0 does not tell whether the outputs could be written: one
  that cannot be opened is an earlier run's still, one that fails is cut short,
  and `OutputsFresh` says that nothing else goes wrong (`Left`). It is about the
  parallel build: the serial one may exit
  with 0 and leave an earlier run's files in place (`serial_output`).
* `WholeFiles`: an exception in one of the tasks waits for the other's `imwrite`, so
  a file is cut short only where its own `imwrite` failed or the process was killed.

The four violations are disagreements between code and documentation:

1. `serial_output`. In the default build the first old segment without a
   descriptor (image.cc:298, TLC's shortest trace) or the first pair that does not
   match (image.cc:305) ends `create_diff_image` without output, and the program
   exits with 0. The README
   of the repository shows `output_diff.png` as the output (README.md:57-59).
2. `serial_added`. In the default build the flags are set on copies, so
   `draw_not_matched` (image.cc:340) outlines matched segments as well.
3. `split_cover`. `cv::Rect(minP, maxP)` excludes `maxP`: the "group rectangle"
   (image.cc:175) misses the group's last row and column, and a group one pixel
   wide has an empty rectangle, hence no descriptor, and is always reported as
   added or deleted. `InImage` and the border of -1 show that a rectangle larger
   by one would still be inside the image.
4. `startup_decode`. A file that holds no image makes `cv::cvtColor` throw in
   `load_image` (image.cc:25, 35), so the program is aborted; the message "failed
   to decode image file" (image.cc:69) meant for this case is unreachable.

Three more things came up while modelling; the models show them as they are, and
the properties are stated so as to allow them:

* The chi-square distance is taken over the bins that the old image occupies
  (image.cc:74). Colours that only the new image has add nothing, and the program
  may end with "two images are same" (main.cc:45). `OldColoursCompared` is
  therefore about the old image's colours.
* For a segment that the old image fits into, but that does not fit into the old image,
  `matchTemplate` searches the old image in the segment (image.cc:313), and the
  rectangle reaches beyond the old image. `AccessInside` says that this is the only
  case.
* `-threshold 0` is taken for "not given" and becomes 200 (cmdline.cc:87), as
  `SettingsExplained` spells out.

### Bounds

Two segments on each side are enough for one old segment with two new ones, two
old with one new, skipping because of another's claim, and overlapping places
(the frames share a pixel). Three old segments on two threads are the least that
could exceed `ClaimBound`. Three old segments in the serial loops cover a
rejection in the first, a middle and the last round. The 4x3 pixels inside the
border of a 6x5 image include lone pixels, several groups, diagonal contact,
rings and concave groups that the scan meets from two sides. `MaxLabel` is 2,
since the code compares labels with 1 only. `Startup` has no bound: there are two
files, and each state of a file is one the code tells apart. The theorems have none of these
bounds.

Two segments on each side in `Detect` let one be described while the other waits
and the other image is still being split. 3x3 images include segments that fit,
that contain the old image, and that do neither. Four arguments are enough for two
options with values, or for an option that is taken as a value and what comes of
it; three more after both files let `parse_args` return with another setting. The
words include 0, a negative number, an empty argument and one that is not a
number. The timers of `perf` are those of both tasks of `detect_segments` and the
stages around and after them. Left out of the instance are the old image's "split
segments" and "grouping", which are like the new one's, and "image processing",
which stands to "grouping" as "split segments" does to "compute descriptors".
The new image's "grouping" is there or not. Three clock readings for many timers force equal readings everywhere, the
hard case for intervals. `MaxCount` and `Bins` in `Histogram` allow a colour that is
new, one that is gone, and shares that change within the tolerance one by one but
not together. `Gazosan` has two input
names besides the three outputs, one for each side.

### Fairness

`WF_vars(Next)` in all specifications with a liveness property (on `UnitsNext` in
`MCUnits`, where `unit` never changes, so it is that function's fairness): as long as some step is possible,
one is taken. It asks no particular task to run. For the serial code it says
that a thread that waits for nothing goes on; for the parallel build it is what
TBB provides, since a task is run by any idle or waiting thread and no task body
waits for another task except in a join, where the thread runs tasks itself.
Functions that return have no next step, so the runs do not check for deadlock;
`Termination` says that such an end is a proper one.

## Proofs

All theorems hold for any constants that satisfy the named assumptions: the sets
of segments are finite and disjoint, an image has finitely many pixels, painted
pixels are pixels of the image,
`ThreadCount`, `Cols`, `Rows` and `MaxLabel` are positive, in `DiffSerial` the
vectors list every segment once, the bounds of `DescriptorMatch` and `Histogram` are
natural numbers, and in `CmdLine` a word that is ignored is not an option.

**DiffParallel_proofs**

* `TypeCorrect`: `Spec => []TypeOK`.
* `JoinFreezes`: `Spec => FrozenAfterJoin`.
* `ClaimsBounded`: `Spec => []ClaimBound`.
* `OutcomeImplemented`: `Spec => ImplementsOutcome`.
* `TasksAreShort` and `NoDeadlock`, see *Why everything ends* below.

The first four rest on the inductive invariant `IInv`. `TaskInv` ties a task's state to the
inputs and to the flag it saw (a task that has been skipped had no descriptor, a
negative verdict, or a flag that was up); `OuterInv` says that an outer task that
is done has had every new segment looked at; `FlagInv` says that a flag is up
exactly when some task has got past the assignment; `PaintInv` that red pixels
belong to claimed segments and that a painted segment is complete, whoever else
paints; `JoinInv` and `DrawInv` describe the phases after the loops. None of the
properties is inductive without these. At the join `IInv` gives: matched new
segments = `Matchable`, `result = RedOf(Matchable)`, matched old segments in
`Partners` (`JoinedFlags`, `JoinedPaint`), which are the steps of `DiffOutcome`.

For `ClaimsBounded` the inductive part is `ContenderInv`: a task may still get
past the test of `n`'s flag only while it is down, and then everyone who got past
it before is still occupying a thread (`ContendersRun`), so with the newcomer
they are at most `ThreadCount`.

**DiffSerial_proofs**

* `TypeCorrect` and `SerialAllOrNothing`: `Spec => []AllOrNothing`, from `SInv`:
  the flags stay down, all pairs gone through were good, `result` holds what the
  positions gone through paint, and the files are those of the current stage.
* `LoopsAreShort`.

**SplitSegments_proofs**

* `TypeCorrect`; `RectsInImage` (from `BoxInv`, the corners are in order);
  `QueueNeverRepeats` (from `QueueInv`, only a fresh seed waits unprocessed, and
  alone);
* `GroupsAreWhole`: `Spec => []WholeGroups`, from `FrontierInv`: a processed pixel
  with a neighbour still labelled is in the queue, or is the current pixel and
  that neighbour is yet to come;
* `EveryGroupOnce`: `Spec => []OneRectPerGroup`. `MarkInv` says that markers only go
  from labelled to 0; `SearchInv` that whatever a search has reached is in the
  group of its seed and that the corners are the tight bounds of that part;
  `SeedFrontier` does for the seed, which the code queues without marking it, what
  `FrontierInv` does for the others. When the queue is empty the part is closed
  under neighbourhood, so it is the whole group (`SearchComplete`). `FoundInv` counts:
  a bijection between the rectangles and the groups searched, to which `Finish` adds
  one pair or, for a lone pixel, none; what the scan has passed (`PassedInv`) is
  searched or lone, so at the end these are all the groups.
* `ScanIsLinear`.

**Startup_proofs**

* `LinesStayWhole`: `Spec => []WholeLines`, and `EndIsExplained`:
  `Spec => []EndExplained`, for both builds. `LockInv` (the owner of the mutex is
  the thread between locking and its newline) and `LastInv` (a line without its
  newline is being printed by its thread) make the first inductive; `TraceInv` and
  `TaskInv` trace what is on `stderr` back through the printing thread and its task
  to the file, which with `EndInv` gives the second.

* `TypeCorrect`: `Spec => []TypeOK`.
* `MainImplemented`: `Spec => ImplementsMain`, the refinement of `Gazosan`, for both
  builds. `MainInit` maps the initial states, `MainStep` every action: `Join` is
  `Load`, `Rethrow` and a task's `Exit` are `LoadFails`, `Check` and the `Exit` of `main`
  are the verdict and its `Fatal`, the rest is a stutter (`MainStutters`). It needs
  `IInv`, and `OrderInv` besides: in the serial build the old file is not touched
  before the new one is loaded, so the first fault in order is the one that ends
  the program.
* `LoadingIsShort` and `NoDeadlock`.

**Image_proofs**

* `DetectTypeCorrect`, and `SegmentsAreReady`: `Spec => []SegmentsReady`, for any
  number of segments. `FillInv` says that a vector is a prefix of the rectangles
  while it is filled, `DescribeInv` that a segment has a descriptor exactly if it
  can have one and its task is over; `LoopOver` then closes the gap.
* `PlaceTypeCorrect`, and `AccessesInside`: `PlaceSpec => []AccessInside`, for images
  of any size. `RectInv` (a segment that fits is placed inside the old image) and
  `LoopInv` (the column is always in the rectangle, and the rows gone through are in the
  old image) give `PositionInside`, from which `OutOfImage` is impossible for a segment
  that fits; for any other the loop cannot come to its end.
* `PixelsOneByOne`: for segments of any size the double loop starts at pixel 0,
  every turn goes on to the next one, and it ends after the last. This is the
  safety part of `EveryPixelCompared`; `TurnInv` has what it needs beside `PInv`: the
  loops have not begun before `compare`, and behind the last row the column is 0.
* `MatchTypeCorrect`, `OneToOneAlways` and `MajorityDecidesAlways`: the results about
  `descriptor_match`, for any numbers of rows. The first is about `MatchTypeOK` and
  `ReadsInside`: each search has an answer for every row, so the cross check finds
  its backward match in the vector, and a median is in its list. `ListInv` says that a list holds each
  pair it should (`Wanted`: the answers of a search, or those of the first `looked`
  rows that both searches agree on) once and with its distance. `SortedLists` says
  that sorting keeps this. `MedianIsMajority` is the argument about the median:
  the indices up to the last one within the threshold are an initial segment of
  a sorted list, so comparing the middle one compares cardinalities, which the
  library's theorems on bijections and intervals count.
* `HistTypeCorrect`, `ProportionalIsSameAlways` and `OldColoursComparedAlways`: the
  histogram check, for any number of bins and pixels. `SumInv` says that the sum so
  far is 0 for images in proportion, and that no term added to it is ever greater
  than it. The steps are products of unknowns, so each inequality is a lemma of
  its own (`TermBelowSum`, `TermsStayBelow`, `Cancel`, `Scaled`).

**CmdLine_proofs**

* `CmdTypeCorrect`, `SettingsExplainedAlways` and `FirstEnderDecidesAlways`, for
  command lines of any length over any words, from `CInv`: while `parse_args` is at
  work it is at an option, never at a value (`AtOption`), its settings come from
  the last occurrences before it (`Plainly`), and no argument before it could have
  ended the parse (`NoneBefore`). That it is always at an option needs
  `OptionsAre`, which unfolds the recursive function in `Options`; that such a
  reading exists (`ReadingExists`) is shown with a least counterexample.
* `ParseIsLinear`.
* `UnitsTypeCorrect`: `UnitsSpec => []UnitsTypeOK`, for the five functions that share
  the run `units`. `UInv` holds the inductive invariant of whichever is called and
  the type invariants of all; the lemmas named `...Rests` say that the states in which
  the others are left are typed, for which `UnitsAssumption` says that there is
  something to call each of them with.

**Perf_proofs**

* `ParentsAreAround`: `Spec => []ParentsCover`, for any timers, tasks and readings
  under `ScopeAssumption` (lifetimes are nested, every timer has an outermost
  one around it, and none is earlier than itself). `NestInv` says that nested timers stop before the ones around
  them, `ClockInv` that their intervals are nested, `RecordInv` that the vector
  lists each timer once and after those around it, `ParentInv` that a parent is
  around its child or was found by its interval. `MaxExists` (a bounded set of
  numbers has a greatest element) rests on the well-foundedness of the naturals.
* `ParentsFollowCalls`: `Spec => []Attribution`. `OrderInv` orders timers of which one
  is destroyed before the other is constructed, in time and in the vector;
  `TurnInv` says that a timer has its constructor's parent, none until its turn,
  or the right one after it. `NearestIsRight` is the heart: the innermost timer
  around covers the record, so the nearest that covers it is that one or comes
  later in the vector, where only concurrent timers, and timers that stopped in
  the instant in which this one started, can cover it.
* `ForestIsPrinted`: `Spec => []ForestPrinted`. `ChildInv` says that `parent` and
  `children` are each other's inverse. `ForestInv` is about the printed lines and
  the waiting ones as one list: no record twice, the children of whatever is
  printed and the roots that had their turn all listed, and each line `Under` its
  parent's, with nothing less indented in between. `InsertKeepsLines` shows that
  putting the children in front of the waiting lines keeps this: the new ones are
  under the line just printed, and a line below them whose parent is further up
  is indented no more than that line was. `NoneMissing`: the first record missing
  at the end would have a parent before it (`ParentsCover`), which is printed, so
  it would be listed.
* `PrintingIsLinear`.

**Gazosan_proofs**

* `OutlinesOnTheirImage`, `FreshOutputs`, `FatalWritesNothing` and `FilesAreWhole`,
  in either build, from `GInv`: `StageInv` ties the ways of ending to the stages,
  `ImageInv` says what the images in memory were made from, `DiskInv` what each
  output holds before it is opened and after it is closed, written or cut short. The heart is
  `StillThere`: a file about to be decoded again holds what it held at the start
  unless it is in `Rewritten`.
* `RunTypeCorrect`: `Spec => []TypeOK`. `TypeOK` allows an image drawn on an image
  drawn on an input and no deeper nesting. That is not inductive: `NestInv` adds
  that an image decoded from the other side's output finds that side finished.

* `RunIsShort`.

**Why everything ends.** Liveness under fairness is out of this prover's reach, but
both halves of the argument are not. First, each of these modules has a natural
number `StepsLeft` that every step lowers (`EveryStepCounts`; `ParseLeft` and
`EveryArgumentOnce` in `CmdLine`, `PrintLeft` and `PrintingCounts` in `Perf`), so
nothing can run on, be repeated or taken back:

| Theorem | Bound | Argument |
|---|---|---|
| `RunIsShort` (`Gazosan`) | 13 | `main`, the bodies of its stages and the status only move forward |
| `LoadingIsShort` (`Startup`) | 19 | so do two tasks, three `Fatal`s and `main`; no `Fatal` starts twice |
| `ScanIsLinear` (`SplitSegments`) | 20 * `Cols` * `Rows` + 2 | a pixel is scanned once, and queued once as a seed and once as a neighbour; a neighbour that is queued loses its label |
| `LoopsAreShort` (`DiffSerial`) | \|old\| * (\|new\| + 2) + 3 | every inner step moves `j`, every end of the inner loop takes a whole turn off |
| `TasksAreShort` (`DiffParallel`) | finite | six sets of what is still to be done (states to come to, pixels to write, segments to visit) of which no step adds to any and each removes from one |
| `ParseIsLinear` (`CmdLine`) | arguments + 1 | every step takes an argument or ends the parse |
| `PrintingIsLinear` (`Perf`) | 3 * records + 2, from `BeginPrinting` on | the two loops over the records only move forward, and the lines are of different records, so there are no more of them (`LinesFit`, from `ForestInv`) |

Second, for the two modules with threads that wait for each other `NoDeadlock`
says that until the end somebody meets the conditions of a next step
(`NobodyStuck`, which spells out the guards since `ENABLED` cannot be used). In
`DiffParallel` this is so for any number of threads: when no inner task is at work
a thread is free, and an outer task that is not done has an inner one to start. In
`Startup` a `Fatal` waits only for the mutex, whose owner never waits (`LockInv`),
and `FatalInv` says that a task that is in `Fatal` and never comes back is printing.

Only model-checked: `Termination`, `CallsEnd` and `EveryPixelCompared`, which draw the
conclusion under fairness. The violated
properties are counterexamples, with nothing to prove. Every other invariant and
action property of the runs is a theorem. The library's induction theorems,
which take the induction hypothesis as an operator, cannot be used with the
installed provers; where a proof needs induction over numbers it takes the least
counterexample instead, which `WFMin` and `NatLessThanWellFounded` provide.

## Not modelled, and the plan

Every part of the program that changes state is modelled, and every invariant and
action property of the runs is proved. `Gazosan` opens and closes each output in two
steps, because a reader may come in between, where `DiffParallel` and `DiffSerial` write
it in one; so they are connected to it by comparison (see Modules) and not by a
refinement. To split `Imwrite` in these two would be the next step.

Left out for good: what the libraries compute (OpenCV, FLANN, AKAZE; any result
they may give is allowed), oneTBB itself, `save_segments` (dead code),
`errno_string`, the layout of texts, user and system times, and the rounding of
floating-point numbers. If OpenCV were built to run its own
loops on TBB, a thread waiting inside `matchTemplate` could start another inner
task and `ThreadCount` would no longer bound the tasks under way; `ClaimBound`
assumes it is not, the other properties do not depend on it.
