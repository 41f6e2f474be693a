---------------------------- MODULE MCSidecarSync ----------------------------
(* SidecarSync for TLC: Movie.en.srt beside Movie.mkv, or beside
   Movie.mkv and Movie.mp4, of whose stems neither is the longer. *)
EXTENDS SidecarSync

Movie == [stem |-> <<"Movie">>, ext |-> "mkv"]
MovieMp4 == [stem |-> <<"Movie">>, ext |-> "mp4"]
Subtitle == [base |-> <<"Movie", "en">>, kind |-> "subtitle"]

MCSidecars == {Subtitle}
OneMedium == {Movie}
TwoMedia == {Movie, MovieMp4}
TwoTexts == {"long", "short"}
TwoSizes == [b \in TwoTexts |-> IF b = "long" THEN 2 ELSE 1]

OneText == {"long"}
OneSize == [b \in OneText |-> 2]
=============================================================================
