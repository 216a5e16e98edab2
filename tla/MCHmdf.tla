------------------------------- MODULE MCHmdf -------------------------------
(* Dates of three seconds of ten ticks, two of them in one second; values of *)
(* which 0 is the null one; names one of which the IMEDS format rewrites; an  *)
(* id two bytes shorter than they are, beside the default one that is longer. *)
EXTENDS Hmdf

MCDates     == {10, 13, 25}
MCValues    == {0, 1, 2}
MCTexts     == {"", "a b", "a_b"}
SizeOf(n)   == IF n = "" THEN 0 ELSE IF n = "noname" THEN 6 ELSE 3
MCIds       == {1}
PlainText(n) == IF n = "a b" THEN "a_b" ELSE n
(* 1 and 2 differ in the eighth digit, of which IMEDS prints seven.  *)
PrintedAs(kind, x) == IF kind = "imeds" /\ x = 2 THEN 1 ELSE x
MCSeries    == {<<>>, <<1, 0>>}
MCCalendars == {<<>>, <<25, 10>>}

Filled(text, ds, us) == [Blank(text, Noid, FALSE) EXCEPT !.date = ds, !.u = us]
MCStarts ==
  {<<>>,
   <<Filled("a b", <<13, 25>>, <<1, 2>>)>>,
   <<Filled("a b", <<10, 25>>, <<1, 2>>), Filled("a_b", <<10, 25>>, <<0, 1>>)>>,
   <<Filled("a b", <<10, 25>>, <<1, 2>>), Filled("", <<13, 25>>, <<0, 1>>)>>}
=============================================================================
