---- MODULE MCControlPlane ----
EXTENDS ControlPlane

====
