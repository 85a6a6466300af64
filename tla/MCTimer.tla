------------------------------- MODULE MCTimer -------------------------------
EXTENDS Timer

CONSTANTS t1, t2

\* Two timers scheduled by the application.
MCIds == {t1, t2}

\* schedule_at (period 0, one shot) and periods of one and two units.
MCPeriods == {0, 1, 2}

\* One-shot, twice, and infinite (add_periodic_task_at<infinite>).
MCCounts == {1, 2, Infinite}

=============================================================================
