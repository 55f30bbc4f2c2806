---------------------------- MODULE MCV1Launcher ----------------------------
\* Two versions of the plugin that replace each other, with three starts: both
\* versions, and one of them again after it failed or while it is starting.
EXTENDS V1Launcher
=============================================================================
