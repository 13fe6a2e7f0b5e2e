--------------------------- MODULE MCPoolControl ----------------------------
(***************************************************************************)
(* Instances of PoolControl for TLC.  Two channels are the least number    *)
(* with which a mask can be half written.                                  *)
(***************************************************************************)
EXTENDS PoolControl

Command(keys, spd, setting, on, off) ==
  [keys |-> keys, spd |-> spd, setting |-> setting, on |-> on, off |-> off]

\* Swap the channels one way or the other, start the pump at full speed,
\* stop it while storing a setting, store that setting alone.
MCCommands ==
  { Command({}, 0, 0, {1}, {2}),
    Command({}, 0, 0, {2}, {1}),
    Command({"spd"}, 100, 0, {}, {}),
    Command({"spd", "setting"}, -1, 90, {}, {}),
    Command({"setting"}, 0, 90, {}, {}) }

\* One command that sets everything at once, and one that undoes it.
MCWholeCommands ==
  { Command({"spd"}, 20, 0, {1, 2}, {}),
    Command({"spd"}, 0, 0, {}, {1, 2}) }

\* For one channel: full speed, the same again or not, a setting alone.
MCCommands1 ==
  { Command({"spd"}, 100, 0, {}, {}),
    Command({"setting"}, 0, 90, {}, {}) }

=============================================================================
