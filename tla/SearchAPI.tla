------------------------------ MODULE SearchAPI ------------------------------
(***************************************************************************)
(* What the Search API's reads can show of the stored records:             *)
(*   src/services/search_api/executor.py, verify.py    search and verify   *)
(*   src/services/search_api/details.py, trailer_day.py, fleet.py,         *)
(*   period_summary.py, reports.py                     the other reads     *)
(*   src/shared/clients/qdrant.py                      the points          *)
(*   src/scripts/prune_images.py                       the retention       *)
(*                                                                         *)
(* Of a response only the record ids in it count: it is a set of ids.      *)
(* Scores, filters, ranking, limits and what the models answer decide      *)
(* which of the possible records are in it: any of them.                   *)
(***************************************************************************)
EXTENDS FiniteSets

CONSTANTS
  Events,     \* ids of panoptic_events rows
  Images,     \* ids of panoptic_images rows the retention may remove
  Frames,     \* ids of panoptic_images rows that are pulled
  Summaries,  \* ids of panoptic_summaries rows
  Buckets,    \* ids of panoptic_buckets rows
  Reports,    \* ids of panoptic_reports rows
  Source      \* [Events -> Images \cup Buckets]: image_id or bucket_id

Ids == Events \cup Images \cup Frames \cup Summaries \cup Buckets \cup Reports

ASSUME SearchAssumption ==
  /\ Source \in [Events -> Images \cup Buckets]
  /\ Frames \cap Reports = {}
  /\ (Images \cup Buckets) \cap (Frames \cup Reports) = {}

VARIABLES
  row,     \* [Ids -> "absent", "stored" or "gone"]: the rows in Postgres
  indexed  \* images and frames with a point in Qdrant

records == <<row, indexed>>

Stored == {x \in Ids : row[x] = "stored"}

\* An installation with its records; pulls and reports are still to come.
SearchInit ==
  /\ row = [x \in Ids |-> IF x \in Frames \cup Reports THEN "absent" ELSE "stored"]
  /\ indexed = Images

\* The caption and its vector are there: what the image workers promise.
IndexFrame(f) ==
  /\ row[f] = "stored"
  /\ indexed' = indexed \cup {f}
  /\ UNCHANGED row

\* prune_images: the points first, then the row.  A point whose delete
\* fails stays when its row goes.
PruneImage(i) ==
  /\ row[i] = "stored"
  /\ row' = [row EXCEPT ![i] = "gone"]
  /\ indexed' \in {indexed, indexed \ {i}}

-----------------------------------------------------------------------------
(* The ids a record shows, and a listing: any of its records *)

Shown(x) == IF x \in Events THEN {x, Source[x]} ELSE {x}

\* Limits and rerankers leave some of the hits, in some order.
Listing(S) == {UNION {Shown(x) : x \in T} : T \in SUBSET S}

\* An image hit is made of the point; its row may be gone by now.
ImageHits == indexed

\* Points of triggers an event may have: not those of pulled frames.
EventPoints == indexed \ Frames

\* An event hit is made of the row, found by the point of its image.
EventHits == {e \in Events \cap Stored : Source[e] \in EventPoints}

\* A summary hit shows the id of its point, a UUID: no record has that id.
SummaryHits == {}

\* Without a query events are listed from Postgres.
Browse == Listing(Events \cap Stored)

Search == Listing(ImageHits \cup EventHits \cup SummaryHits)

\* The verdict's labels stand for hits it was given; the others are dropped.
Supporting(hits) == SUBSET hits

Verify == UNION {{hits \cup ids : ids \in Supporting(hits)} : hits \in Search}

\* What fetch_summaries, fetch_images and fetch_events read.
Evidence == Stored \cap (Events \cup Images \cup Frames \cup Summaries)

\* The ids the synthesis of a camera names in support.
SummarizePeriod == SUBSET Evidence

TrailerDay == Listing(Evidence \cup (Stored \cap Reports))

FleetOverview == Listing(Stored \cap Reports)

ListReports == Listing(Stored \cap Reports)

\* Of a record, or 404: not there, or not of the kind that was asked for;
\* the caller's error message names the URL, with the id in it.
RecordDetail(x) == {Shown(y) : y \in (Stored \ (Buckets \cup Reports)) \cap {x}} \cup {{x}}

\* A report names what it was made of, as stored then.
ReportDetail(x) ==
  {{x} \cup cited : cited \in SUBSET {y \in Ids \ (Buckets \cup Reports) :
                                    x \in Stored \cap Reports /\ row[y] # "absent"}}

\* POST /v1/reports/daily: one row per trailer and day.
GenerateDailyReport(r) ==
  /\ row' = [row EXCEPT ![r] = "stored"]
  /\ UNCHANGED indexed

=============================================================================
