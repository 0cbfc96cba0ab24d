----------------------------- MODULE CommandLine ------------------------------
(* The command line tool (sa-cli): one process, one command, files on a disk    *)
(* that may refuse to be written. A command is the sequence of steps it takes;  *)
(* what its algorithms do to the samples is left out, and what is kept of a     *)
(* file is how long a reader takes it to be, how much there is of it and how    *)
(* many of its first frames sound (the rest is silence). The tool checks        *)
(* nowhere that it is not writing to the file it is reading.                    *)
EXTENDS Integers, Sequences, FiniteSets, SequencesExt

CONSTANTS
  Path,          \* the files
  Extension,     \* what each one's name ends in
  Disks,         \* what the files may be when the tool starts
  Request,       \* what it may be asked for
  kBlock         \* frames to a block

VARIABLES
  files,         \* Path -> what is there
  began,         \* history: what was there when the tool started
  request,       \* the command line
  job,           \* where the command stands
  printed,       \* something is on stdout
  exitCode       \* "running", "success", "failure" or, by a signal, "aborted"

cliVars == <<files, began, request, job, printed, exitCode>>

Lesser(a, b) == IF a < b THEN a ELSE b
Absent == [kind |-> "absent"]
\* A source a command has opened or made: the file it reads as it goes, a
\* document over that file, or memory.
NoSource == [from |-> "nothing"]

\* What a file may be: nothing, audio, a session that plays audio, or neither.
File == {Absent, [kind |-> "noise"]}
        \cup [kind : {"audio"}, claims : Nat, holds : Nat, sounds : Nat, readable : BOOLEAN, channels : Nat,
              rate : {"same", "other"}, format : {"8", "16", "24", "32", "float"}, dithered : BOOLEAN]
        \cup [kind : {"session"}, plays : Path, length : Nat]
ASSUME DisksAssumption == Disks \subseteq [Path -> File]
ASSUME BlockAssumption == kBlock \in Nat \ {0}
-------------------------------------------------------------------------------
(* Formats.                                                                    *)

containerFor(path) == CASE Extension[path] \in {".aif", ".aiff", ".aifc"} -> "Aiff"
                        [] Extension[path] = ".flac" -> "Flac"
                        [] OTHER -> "Wave"

storableFormat(container, wanted) ==
  CASE container = "Wave" -> wanted
    [] container = "Aiff" -> IF wanted \in {"16", "24", "32"} THEN wanted ELSE "24"
    [] container = "Flac" -> IF wanted = "16" THEN "16" ELSE "24"

\* A name nobody knows is no name.
formatFrom(named, fallback) == CASE named \in {"16", "24"} -> named
                                 [] named \in {"32", "float"} -> "float"
                                 [] OTHER -> fallback

\* Whether anything is dithered: only what is written as 16 or 24 bits.
ditherFor(named, format) == named \in {"tpdf", "shaped"} /\ format \in {"16", "24"}

\* Mutant: asked about the format that was wanted, before it was narrowed.
Stored_Wanted(path, wanted) ==
  [format |-> storableFormat(containerFor(path), wanted), dithered |-> ditherFor(request.dither, wanted)]
Stored(path, wanted) ==
  LET format == storableFormat(containerFor(path), wanted)
  IN [format |-> format, dithered |-> ditherFor(request.dither, format)]
-------------------------------------------------------------------------------
(* The commands. A step that can fail is named for what it asks.               *)

\* The audio of a file, or of a buffer, goes to a file a block at a time, and the
\* command says so.
write == <<"dither", "create", "copy", "finish">>
writeAndSay == write \o <<"print">>
\* A file is read whole before anything is written.
readWhole == <<"open", "read", "process">>
\* Mutant: the file is opened before the one it may replace has been read.
wholeFile_Early(asked) == asked \o <<"open", "dither", "create", "read", "process", "copy", "finish", "print">>
wholeFile(asked) == asked \o readWhole \o writeAndSay

analyse == <<"count", "one report", "heading", "open", "measure", "print", "next file">>
bands == <<"count", "one report", "open", "read", "process", "print">>
\* By octaves; and as a whole, whose heading is out before a channel is measured.
roomBands == <<"count", "open", "read", "process", "print">>
room == <<"count", "open", "read", "print", "process">>
tempo == <<"count", "open", "read", "process", "print">>
pitch_of == <<"count", "open", "read", "process", "print">>
nulltest == <<"count", "open", "open other", "same rate", "read", "read other", "process", "print">>
contour == <<"count", "open", "read", "process", "print">>
key == <<"count", "open", "read", "process", "print">>
sweep == <<"count", "generate">> \o writeAndSay
deconvolve == wholeFile(<<"count">>)
provenance == <<"count", "open", "read", "process", "print", "next file">>
\* The one that keeps reading its input while it writes.
convert == <<"count", "open", "dither", "create", "copy", "finish", "print rates">>
\* What is written is a document over its input, with a gain on the clip.
normalise == <<"count", "option", "open", "measure", "gate", "place", "process">> \o writeAndSay
denoise == <<"count", "option", "open", "numbers", "read", "process">> \o writeAndSay
dynamics == wholeFile(<<"count">>)
reshape == wholeFile(<<"count", "option">>)
channels == <<"count", "option", "open", "stereo", "read">> \o writeAndSay
dereverbFile == wholeFile(<<"count">>)
deessFile == wholeFile(<<"count">>)
dehumFile == wholeFile(<<"count">>)
declipFile == wholeFile(<<"count">>)
declickFile == wholeFile(<<"count">>)
stretch == reshape
pitch == reshape
render == <<"count", "session">> \o writeAndSay
usage == <<"print", "refuse">>

main == [analyse |-> analyse, bands |-> bands, roomBands |-> roomBands, room |-> room, tempo |-> tempo,
         pitchOf |-> pitch_of, null |-> nulltest, contour |-> contour, key |-> key, sweep |-> sweep,
         deconvolve |-> deconvolve, provenance |-> provenance, convert |-> convert, normalise |-> normalise,
         denoise |-> denoise, dereverb |-> dereverbFile, deess |-> deessFile, dehum |-> dehumFile,
         declip |-> declipFile, declick |-> declickFile, stretch |-> stretch, pitch |-> pitch,
         dynamics |-> dynamics, channels |-> channels, render |-> render, unknown |-> usage]

ASSUME RequestAssumption ==
  Request \subseteq [command : DOMAIN main, inputs : Seq(Path) \ {<<>>}, out : Path, format : STRING, dither : STRING,
                    rate : {"same", "other", "invalid"}, csv : BOOLEAN,
                    wrong : {"nothing", "count", "option", "numbers", "mono"}]

Steps == main[request.command]
Writes(command) == "create" \in Range(main[command])
\* Where a command begins with each of its files.
firstStep == CHOOSE i \in DOMAIN Steps : Steps[i] = "open"
-------------------------------------------------------------------------------
(* Taking steps.                                                               *)

at(step) == exitCode = "running" /\ job.step <= Len(Steps) /\ Steps[job.step] = step
goOn == job' = [job EXCEPT !.step = @ + 1] /\ UNCHANGED exitCode
goOnWith(source) == job' = [job EXCEPT !.step = @ + 1, !.source = source] /\ UNCHANGED exitCode

\* A command that takes several files counts those that failed and goes on to
\* the next one; any other command is over.
fail == IF "next file" \in Range(Steps) /\ job.step >= firstStep
        THEN job' = [job EXCEPT !.step = Len(Steps), !.failures = @ + 1] /\ UNCHANGED exitCode
        ELSE exitCode' = "failure" /\ UNCHANGED job
goOnIf(condition) == IF condition THEN goOn ELSE fail

input == request.inputs[job.file]
other == request.inputs[2]
Opens(path) == files[path].kind = "audio"
Holds(path) == Lesser(files[path].claims, files[path].holds)
\* All of a file at once is as long as the file says, whatever there is of it.
InMemory(length, sounds) == [from |-> "memory", length |-> length, sounds |-> sounds]
OnDisk(from, path, length) == [from |-> from, path |-> path, length |-> length]

checkRequest ==
  /\ \/ at("count") /\ goOnIf(request.wrong # "count")
     \/ at("option") /\ goOnIf(request.wrong # "option")
     \/ at("one report") /\ goOnIf(request.wrong # "option")
     \/ at("dither") /\ goOnIf(request.dither # "unknown")
     \/ at("refuse") /\ fail
     \* std::stod, and nothing that catches what it throws.
     \/ at("numbers") /\ IF request.wrong = "numbers" THEN exitCode' = "aborted" /\ UNCHANGED job ELSE goOn
  /\ UNCHANGED <<files, began, request, printed>>

openInput ==
  /\ \/ at("open") /\ IF Opens(input) THEN goOnWith(OnDisk("file", input, files[input].claims)) ELSE fail
     \/ at("open other") /\ goOnIf(Opens(other))
     \/ at("same rate") /\ goOnIf(files[input].rate = files[other].rate)
     \/ at("stereo") /\ goOnIf(request.wrong # "mono" \/ files[input].channels = 2)
     \* A source that is missing is only worth a warning: its clips are silent.
     \/ /\ at("session")
        /\ IF files[input].kind # "session" THEN fail
           ELSE goOnWith(OnDisk(IF Opens(files[input].plays) THEN "document" ELSE "silence",
                                files[input].plays, files[input].length))
  /\ UNCHANGED <<files, began, request, printed>>

readInput ==
  /\ \/ at("read") /\ IF files[input].readable THEN goOnWith(InMemory(files[input].claims, Holds(input))) ELSE fail
     \/ at("read other") /\ goOnIf(files[other].readable)
     \* Whatever ends the reading ends the measurement, and is no error.
     \/ at("measure") /\ goOn
     \/ at("gate") /\ (goOn \/ fail)
     \* On a timeline, where it stays as long as the file says that it is.
     \/ at("place") /\ IF files[input].claims > 0 THEN goOnWith(OnDisk("document", input, files[input].claims)) ELSE fail
     \/ at("process") /\ (goOn \/ fail)
     \/ at("generate") /\ (fail \/ goOnWith(InMemory(kBlock, kBlock)))
  /\ UNCHANGED <<files, began, request, printed>>

report ==
  /\ \/ at("print") /\ goOn /\ printed' = TRUE
     \/ at("heading") /\ goOn /\ printed' = (printed \/ request.csv)
     \/ at("print rates") /\ goOn /\ printed' = (printed \/ request.rate = "other")
     \/ /\ at("next file")
        /\ job' = IF job.file < Len(request.inputs)
                  THEN [job EXCEPT !.file = @ + 1, !.step = firstStep]
                  ELSE [job EXCEPT !.step = @ + 1]
        /\ UNCHANGED <<printed, exitCode>>
  /\ UNCHANGED <<files, began, request>>
-------------------------------------------------------------------------------
(* Writing.                                                                    *)

out == request.out
Wanted == formatFrom(request.format, CASE request.command \in {"sweep", "deconvolve"} -> "float"
                                       [] request.command = "render" -> "24"
                                       [] OTHER -> began[input].format)
Begun == LET stored == Stored(out, Wanted)
         IN [kind |-> "audio", readable |-> TRUE, claims |-> 0, holds |-> 0, sounds |-> 0, channels |-> 2,
             rate |-> request.rate, format |-> stored.format, dithered |-> stored.dithered]

\* The file is truncated before its writer looks at the rate.
create ==
  /\ at("create")
  /\ \/ fail /\ UNCHANGED files
     \/ /\ files' = [files EXCEPT ![out] = Begun]
        /\ goOnIf(request.rate # "invalid" \/ request.command # "convert")
  /\ UNCHANGED <<began, request, printed>>

\* What there is to be had of the source now. The reader of a file remembers
\* how long it was when it was opened, and finds nothing once it is truncated;
\* a document stays as long as it is and plays silence.
Supply ==
  LET source == job.source
      left == IF source.from \in {"memory", "silence"} \/ source.path = out THEN 0 ELSE Holds(source.path)
  IN CASE source.from = "memory" -> [frames |-> source.length, sounds |-> source.sounds]
       [] source.from = "file" -> [frames |-> left, sounds |-> left]
       [] OTHER -> [frames |-> source.length, sounds |-> left]
Readable == job.source.from \in {"memory", "silence"} \/ job.source.path = out \/ files[job.source.path].readable

\* Until a file is finished its header gives no length: readers take a WAV or an
\* AIFF to be empty, and count the frames of a FLAC.
\* Mutant: the lengths are kept up to date as it is written.
Claims_AsWritten(frames) == frames
Claims(frames) == IF containerFor(out) = "Flac" THEN frames ELSE 0

copy ==
  /\ at("copy")
  /\ IF ~Readable THEN fail /\ UNCHANGED files
     ELSE IF job.copied = Supply.frames THEN goOn /\ UNCHANGED files
     ELSE \/ LET written == job.copied + Lesser(kBlock, Supply.frames - job.copied)
             IN /\ files' = [files EXCEPT ![out] = [@ EXCEPT !.holds = written, !.claims = Claims(written),
                                                              !.sounds = Lesser(written, Supply.sounds)]]
                /\ job' = [job EXCEPT !.copied = written]
                /\ UNCHANGED exitCode
          \/ fail /\ UNCHANGED files
  /\ UNCHANGED <<began, request, printed>>

finish ==
  /\ at("finish")
  /\ \/ files' = [files EXCEPT ![out].claims = files[out].holds] /\ goOn
     \/ fail /\ UNCHANGED files
  /\ UNCHANGED <<began, request, printed>>

leave ==
  /\ exitCode = "running" /\ job.step > Len(Steps)
  /\ exitCode' = IF job.failures = 0 THEN "success" ELSE "failure"
  /\ UNCHANGED <<files, began, request, job, printed>>

CommandLineInit ==
  /\ files \in Disks /\ began = files
  /\ request \in Request
  /\ job = [step |-> 1, file |-> 1, failures |-> 0, copied |-> 0, source |-> NoSource]
  /\ printed = FALSE /\ exitCode = "running"

CommandLineNext == \/ checkRequest \/ openInput \/ readInput \/ report
                   \/ create \/ copy \/ finish \/ leave
-------------------------------------------------------------------------------
(* What a script may rely on.                                                  *)

Untouched(path) == files[path] = began[path]
Sounding(path) == IF began[path].kind = "audio" THEN Lesser(began[path].claims, began[path].holds) ELSE 0
\* A request no file can make right.
IsWrong == \/ request.wrong = "count"
           \/ request.wrong = "option" /\ "option" \in Range(Steps)
           \/ request.dither = "unknown" /\ Writes(request.command)
\* The audio that is to be heard in what the command writes.
Heard == IF request.command = "render" THEN began[input].plays ELSE input
\* How much of it: a document plays no more than it is long.
Audible == IF request.command = "render" THEN Lesser(began[input].length, Sounding(Heard)) ELSE Sounding(Heard)
IsLazy == request.command \in {"convert", "normalise", "render"}
Failed == exitCode \in {"failure", "aborted"}

\* A command that writes and reports success has left a complete file, in a
\* format its container has, dithered if it was asked to be and bits were
\* dropped, in which everything there was in its input sounds, even if that was
\* the file it replaced -- unless it reads its input while it writes
\* (main.cpp: write, convert; "Every command returns 0 on success").
SuccessIsAFile ==
  exitCode = "success" /\ Writes(request.command) =>
    /\ files[out].claims = files[out].holds
    /\ files[out].dithered = (request.dither \in {"tpdf", "shaped"} /\ files[out].format \in {"16", "24"})
    /\ containerFor(out) = "Flac" => files[out].format \in {"16", "24"}
    /\ request.command = "sweep" \/ (IsLazy /\ Heard = out) \/ files[out].sounds = Audible

\* A command that fails leaves nothing of its own that reads as a recording,
\* except a FLAC, nothing at all where the request was wrong, and no command
\* touches a file it was not to write (OutputFile, write, convert).
FailureLeavesNothing ==
  /\ \A path \in Path \ {out} : Untouched(path)
  /\ Failed /\ containerFor(out) # "Flac" => Untouched(out) \/ files[out].claims = 0
  /\ IsWrong => Untouched(out) /\ exitCode # "success"

\* "a file whose sizes were never patched does not read as a complete one, which
\* is what a failure should leave behind rather than a plausible short file"
\* (OutputFile::finish), in any container.
NoPlausibleShortFile == Failed => Untouched(out) \/ files[out].claims = 0

\* "Every command returns 0 on success and 1 on failure, and writes nothing to
\* stdout on failure, so it composes in a script" (usage()).
FailsInSilence == Failed => ~printed
===============================================================================
