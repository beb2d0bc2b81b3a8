------------------------------ MODULE MCStartup ------------------------------
(* Command lines of up to four words, some files, and what they hold.        *)
EXTENDS Startup

Tag(l, c) == [lib |-> l, conf |-> c]

(* "good" is consistent; "mute" has a conf that lacks frameSize; "odd" has
   counts that do not parse and no port; "big" does not fit a frame; "tcp"
   streams over TCP and captures; "bare" has no transport and no conf; "mad"
   has a size and a conf whose numbers do not parse or are negative.         *)
FilesHold ==
  [good |-> [plugins |-> <<Tag("udp", ""), Tag("dtmf", "tones"), Tag("rec", "")>>,
             attrs |-> [files |-> 2, channels |-> 2, samplesPerChan |-> 4, enabled |-> "true",
                        size |-> NaN, timeBased |-> "disabled", maxSize |-> [n |-> 12, unit |-> "MB"], rate |-> 16,
                        transport |-> "udp", port |-> 1234, logname |-> "x"]],
   mute |-> [plugins |-> <<Tag("null", None), Tag("dtmf", "half")>>,
             attrs |-> [logname |-> "x"]],
   odd  |-> [plugins |-> <<Tag("udp", None), Tag("rec", None)>>,
             attrs |-> [files |-> NaN, channels |-> 3, timeBased |-> "enabled",
                        interval |-> NaN, rate |-> NaN, transport |-> "udp"]],
   big  |-> [plugins |-> <<Tag("udp", None)>>,
             attrs |-> [channels |-> 4, samplesPerChan |-> 5, transport |-> "udp"]],
   tcp  |-> [plugins |-> <<Tag("alsa", None), Tag("udp", None), Tag("rec", ""), Tag("md5", None)>>,
             attrs |-> [files |-> 3, channels |-> 3, samplesPerChan |-> 5, transport |-> "tcp",
                        port |-> NaN, sampleRate |-> 44, chans |-> NaN, timeBased |-> "no"]],
   bare |-> [plugins |-> <<Tag("dtmf", None), Tag("rec", ""), Tag("udp", None)>>,
             attrs |-> [files |-> 200]],
   mad  |-> [plugins |-> <<Tag("rec", None), Tag("dtmf", "minus")>>,
             attrs |-> [timeBased |-> "disabled", maxSize |-> [n |-> NaN, unit |-> "GB"]]],
   tones |-> [plugins |-> <<>>, attrs |-> [freq |-> 8, frameSize |-> NaN]],
   half |-> [plugins |-> <<>>, attrs |-> [freq |-> 8]],
   minus |-> [plugins |-> <<>>, attrs |-> [freq |-> -8, frameSize |-> 16]]]

Units == [B |-> 0, MB |-> 1, GB |-> 1000]

Configs == {"good", "mute", "odd", "big", "tcp", "bare", "mad"}

Options == {"-c", "--config", "-d", "-l", "-h", "", "nofile"}

(* The program's name and up to three words; a fourth behind an option.      *)
CommandLines ==
  LET words == Options \cup Configs
      from(n) == {<<"recd2">> \o w : w \in [1 .. n -> words]}
  IN UNION {from(n) : n \in 0 .. 2}
     \cup {<<"recd2", a, "-c", b>> : a \in words, b \in words}
     \cup {<<"recd2", "-c", a, b>> : a \in words, b \in words}
     \cup {<<"recd2", "-c", a, "-c", b>> : a \in words, b \in words}
=============================================================================
