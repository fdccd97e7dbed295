---------------------------- MODULE MCDashboard ----------------------------
EXTENDS Dashboard

CONSTANTS AAPL, TSLA

MCTickers == {AAPL, TSLA}
=============================================================================
