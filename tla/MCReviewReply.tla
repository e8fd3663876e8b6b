--------------------------- MODULE MCReviewReply ---------------------------
(* Instances of ReviewReply for TLC.                                        *)
EXTENDS ReviewReply

CONSTANTS h1, h2, w1, w2, s1

\* Two messages of praise, one worker, two faults of any kind.
Praise    == [procs |-> {h1, w1}, guest |-> <<"text", "text">>, staff |-> {}, acts |-> 0,
              faults |-> 2, moods |-> {"pos"}, modes |-> {"draft", "send"}]
\* A picture, which nobody classifies, after the first message.
Picture   == [Praise EXCEPT !.guest = <<"text", "photo">>]
\* Callback and poll bring in the same messages.
Twice     == [Picture EXCEPT !.procs = {h1, h2, w1}, !.faults = 0]
\* Two workers.
Together  == [Praise EXCEPT !.procs = {h1, w1, w2}, !.faults = 0]
Again     == [Picture EXCEPT !.procs = {h1, w1, w2}, !.faults = 1]
\* The tone changes from one message to the next.
Mixed     == [Praise EXCEPT !.moods = {"pos", "neg", "other"}, !.modes = {"draft", "send", "ack"},
                            !.faults = 0]
\* A complaint is acknowledged; one member of the staff answers, in VK.
Complaint == [Praise EXCEPT !.moods = {"neg"}, !.modes = {"ack"}, !.staff = {"vk"},
                            !.acts = 1, !.faults = 0]
\* The staff answer a happy guest, in VK and in the panel.
Team      == [Praise EXCEPT !.procs = {h1, h2, w1}, !.guest = <<"text">>, !.staff = {"vk"}, !.acts = 1,
                            !.faults = 0]
Panel     == [Praise EXCEPT !.acts = 1, !.faults = 0, !.staff = {"panel"}, !.procs = {h1, w1, s1}]
\* The staff cancel, reject and ask for another draft.
Buttons   == [Praise EXCEPT !.staff = {"cancel", "reject", "regen"}, !.acts = 1,
                            !.procs = {h1, w1, s1}, !.faults = 0]
Quarrel   == [Buttons EXCEPT !.guest = <<"text">>, !.acts = 2, !.faults = 1]

MCAll == {Praise, Picture, Twice, Together, Again, Mixed, Complaint, Team, Panel, Buttons, Quarrel}
=============================================================================
