-------------------------- MODULE MCPanelAuthority --------------------------
\* PanelAuthority on small instances (MCPanelAuthority*.cfg).
EXTENDS PanelAuthority
=============================================================================
