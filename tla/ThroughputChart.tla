--------------------------- MODULE ThroughputChart ---------------------------
(***************************************************************************)
(* The chart of the overview (web/components/dashboard/shared/             *)
(* BandwidthChart.tsx).  It is fed with a figure that says whether a       *)
(* tunnel is active, as the last poll had it, and keeps a point for each   *)
(* change of it in a window; the points go when the page is left.          *)
(***************************************************************************)
EXTENDS Naturals, Sequences

CONSTANT Window     \* points the chart keeps (12)

VARIABLES
    chartUsage,     \* the figure the chart was rendered with last
    data,           \* its points, the oldest first
    chartMounted    \* is the overview open

chartVars == <<chartUsage, data, chartMounted>>

(* DashboardPage passes 452.8 while a tunnel is active, and 0 otherwise.   *)
Figures == {"none", "flowing"}

ChartTypeOK ==
    /\ chartUsage \in Figures
    /\ data \in Seq(Figures) /\ Len(data) <= Window
    /\ chartMounted \in BOOLEAN

ChartInit == chartUsage = "none" /\ data = <<>> /\ chartMounted = FALSE

(* The effect on currentUsage: a point at the end, and the oldest one      *)
(* dropped once the window is full.                                        *)
Sampled(points, figure) ==
    LET next == Append(points, figure)
    IN  IF Len(next) > Window THEN Tail(next) ELSE next

Mount ==
    /\ ~chartMounted
    /\ \E figure \in Figures :
           chartUsage' = figure /\ data' = Sampled(<<>>, figure)
    /\ chartMounted' = TRUE

(* A poll of the tunnels renders the overview; the effect runs only when   *)
(* the figure is another one.                                              *)
Rendered ==
    /\ chartMounted
    /\ \E figure \in Figures \ {chartUsage} :
           chartUsage' = figure /\ data' = Sampled(data, figure)
    /\ UNCHANGED chartMounted

Unmount ==
    /\ chartMounted
    /\ chartMounted' = FALSE /\ data' = <<>>
    /\ UNCHANGED chartUsage

ChartNext == Mount \/ Rendered \/ Unmount

ChartSpec == ChartInit /\ [][ChartNext]_chartVars

(* The newest point is the figure above the chart, and no two points in a  *)
(* row are alike: the "12-point live sample" tells of changes, not of time *)
(* (BandwidthChart's second effect).                                       *)
PointsAreChanges ==
    /\ chartMounted => data # <<>> /\ data[Len(data)] = chartUsage
    /\ \A k \in 1 .. Len(data) - 1 : data[k] # data[k + 1]
===============================================================================
